---- MODULE Spec2Model ----
(***************************************************************************)
(* Model of the Forge cluster coordinator (backend/cluster/coordinator.py) *)
(* and of the HTTP handlers that drive it (backend/api/routes/             *)
(* cluster_routes.py), and of the knowledge store                          *)
(* (backend/memory/store.py) with the callers that use it from threads.    *)
(*                                                                         *)
(* Representation choices:                                                 *)
(*  - a replica id "agent-<hex6>" is the natural number standing for its   *)
(*    hex part; uuid4 freshness is the counter next_rid;                   *)
(*  - a replica name "forge-<hex6>" is that same number, and the name      *)
(*    "forge-primary" (not a hex string) is PRIMARY_NAME;                  *)
(*  - the dict self.replicas is a sequence in insertion order (Python      *)
(*    dicts iterate in insertion order);                                   *)
(*  - the string current_task "<task_type>:<service>" is the record        *)
(*    [task_type, service]; None is NoTask;                                *)
(*  - None for a replica id is NoRid, for the pending slot NoValidation;   *)
(*  - time.monotonic() is the integer variable now (seconds); the         *)
(*    timestamps of scale events are read from the same clock.             *)
(*  - a string of the store is a sequence of one-character strings, so    *)
(*    that slicing, lower() and split() are computed on its characters;     *)
(*  - a confidence is an integer number of hundredths (0.99 is 99);        *)
(*  - datetime.now().isoformat() is the counter mclock, and a store uuid   *)
(*    is the counter next_uid;                                             *)
(*  - a key a dict does not hold is a sentinel value (NoId, NoStatus,      *)
(*    NoConf, NoOcc, NoTime);                                              *)
(*  - a caller of the store is a thread that is idle, has loaded the       *)
(*    document, or has saved it: load_memory and save_memory are the two   *)
(*    critical sections of _lock.                                          *)
(***************************************************************************)
EXTENDS Integers, Sequences, FiniteSets, Bags, TLC

\* ------------------------------------------------------------------
\* Configuration (coordinator.py:29-34)
\* ------------------------------------------------------------------
MAX_SERVICES_PER_AGENT == 5
QUEUE_HIGH_WATERMARK == 3
QUEUE_LOW_WATERMARK == 1
SCALE_COOLDOWN_SECONDS == 15
MAX_AGENT_REPLICAS == 6
MIN_AGENT_REPLICAS == 1

\* literals of cluster_routes.py
MANUAL_MAX_REPLICAS == 6
MANUAL_MIN_REPLICAS == 1
SIM_MAX_TICKS == 4
VALIDATION_RING == 20
COMPLETED_RING == 50
CPU_THRESHOLD == 80

\* ------------------------------------------------------------------
\* Bounds of the model
\* ------------------------------------------------------------------
MaxRid == 7          \* replica ids ever drawn (uuid4 draws)
MaxWid == 5          \* work ids ever drawn (uuid4 draws)
MaxServices == 6     \* longest list given to set_services
MaxSimCount == 5     \* largest count given to simulate-load
MaxNow == 32         \* the clock stops advancing here
MaxManual == 2       \* POST /validate requests suspended at the same time
BootTime == 16       \* time.monotonic() when the coordinator is built

\* ------------------------------------------------------------------
\* Values
\* ------------------------------------------------------------------
PRIMARY_NAME == 0
NoRid == 0
NoTask == [task_type |-> "none", service |-> "none"]
NoValidation == [trigger_event |-> "none", trigger_replica |-> NoRid]

ServiceNames ==
  <<"payment-service", "order-service", "auth-service", "api-gateway",
    "inventory-svc", "cart-service", "search-service", "email-service">>

\* simulate_load's fallback list (cluster_routes.py:82)
DefaultServices == SubSeq(ServiceNames, 1, 5)

\* the lists set_services is called with: duplicate-free lists of names
ServiceLists ==
  { SubSeq(ServiceNames, 1, n) : n \in {0, 1, MaxServices - 1, MaxServices} }

\* the (service_name, task_type, priority) triples POST /enqueue is given
EnqueueInputs ==
  { [service_name |-> "payment-service", task_type |-> "analyze", priority |-> 0],
    [service_name |-> "order-service", task_type |-> "generate_insights", priority |-> 1] }

Min2(a, b) == IF a < b THEN a ELSE b
Max2(a, b) == IF a > b THEN a ELSE b

VARIABLES
  replicas,            \* self.replicas, insertion order
  work_queue,          \* self.work_queue
  completed_work,      \* self.completed_work
  scale_events,        \* self.scale_events
  last_scale_time,     \* self._last_scale_time
  all_services,        \* self._all_services
  validation_results,  \* self.validation_results
  pending_validation,  \* self._pending_validation
  inflight,            \* validations suspended in validate_network_after_scale
  next_rid,            \* next fresh replica id
  next_wid,            \* next fresh work id
  now,                 \* time.monotonic()
  tick,                \* the mape_k_tick call in progress, if any
  mem,                 \* the document in memory/insights.json
  threads,             \* per caller: the store operation it is inside
  next_uid,            \* next fresh uuid4 of the store
  mclock,              \* datetime.now() as the store reads it
  disk,                \* insights.json, insights.tmp and their directory
  saver,               \* the save that is under way, if any
  recorded,            \* the session ids record_analysis has returned
  resp,                \* the last response of PATCH /api/insights/{id}
  act_log,             \* activity_log._log
  act_counter,         \* activity_log._counter
  act_lock,            \* activity_log._lock: the thread that holds it
  loggers,             \* per thread: its place in log_activity
  issued,              \* the ids log_activity has returned, in order
  wall,                \* datetime.now()
  rng,                 \* the function of its seed that random.Random is
  calls,               \* per analyze_service call: its place and its result
  bg,                  \* per call: its _fire_minimax_background task
  delivered,           \* per call: the report as it was returned
  known,               \* what get_all_insights() and get_all_patterns() return
  listing,             \* the strategies GET /api/network-test/strategies last returned
  listed_from,         \* the insights and patterns they were derived from
  next_sid,            \* next fresh strategy id
  last_report,         \* network_test_routes._last_report
  action_log,          \* aws_tools._action_log
  next_aid,            \* next fresh action id
  last_remedy,         \* the last remediation call: how it went, the log before
  stability            \* what validate_scale_stability last returned

vars ==
  <<replicas, work_queue, completed_work, scale_events, last_scale_time,
    all_services, validation_results, pending_validation, inflight,
    next_rid, next_wid, now, tick, mem, threads, next_uid, mclock,
    disk, saver, recorded, resp,
    act_log, act_counter, act_lock, loggers, issued,
    wall, rng, calls, bg, delivered,
    known, listing, listed_from, next_sid, last_report,
    action_log, next_aid, last_remedy, stability>>

\* The coordinator object as one value
Coord ==
  [replicas |-> replicas, work_queue |-> work_queue,
   completed_work |-> completed_work, scale_events |-> scale_events,
   last_scale_time |-> last_scale_time, all_services |-> all_services,
   validation_results |-> validation_results,
   pending_validation |-> pending_validation]

\* ------------------------------------------------------------------
\* Replica management
\* ------------------------------------------------------------------
AgentReplica(rid, name) ==
  [replica_id |-> rid, name |-> name, status |-> "running",
   assigned_services |-> <<>>, analyses_completed |-> 0,
   current_task |-> NoTask]

WorkItem(wid, service_name, task_type, priority) ==
  [id |-> wid, service_name |-> service_name, task_type |-> task_type,
   priority |-> priority, assigned_to |-> NoRid, status |-> "pending"]

\* rid in self.replicas
HasReplica(reps, rid) == \E i \in 1..Len(reps) : reps[i].replica_id = rid

IndexOfReplica(reps, rid) ==
  CHOOSE i \in 1..Len(reps) : reps[i].replica_id = rid

\* [r for r in self.replicas.values() if r.status == "running"]
Running(reps) == SelectSeq(reps, LAMBDA r : r.status = "running")

\* services handed to the i-th (1-based) of k running replicas by the
\* round-robin loop: those at 0-based positions j with j % k = i - 1
RoundRobinShare(services, i, k) ==
  LET Idx == { j \in 1..Len(services) : (j - 1) % k = i - 1 }
      F[n \in 0..Len(services)] ==
        IF n = 0 THEN <<>>
        ELSE IF n \in Idx THEN Append(F[n - 1], services[n]) ELSE F[n - 1]
  IN F[Len(services)]

\* position of the i-th table entry among the running replicas
RunningRank(reps, i) ==
  Cardinality({ j \in 1..i : reps[j].status = "running" })

RebalancePartitions(c) ==
  LET k == Len(Running(c.replicas))
  IN IF k = 0 \/ Len(c.all_services) = 0 THEN c
     ELSE [c EXCEPT !.replicas =
             [i \in 1..Len(c.replicas) |->
                IF c.replicas[i].status = "running"
                THEN [c.replicas[i] EXCEPT !.assigned_services =
                        RoundRobinShare(c.all_services,
                                        RunningRank(c.replicas, i), k)]
                ELSE c.replicas[i]]]

SpawnReplica(c, rid, name, t) ==
  LET reps == Append(c.replicas, AgentReplica(rid, name))
      ev == [event |-> "spawn", replica_id |-> rid, name |-> name,
             timestamp |-> t,
             reason |-> IF Len(reps) > 1 THEN "auto-scale" ELSE "initial",
             total_replicas |-> Len(reps)]
      c1 == [c EXCEPT !.replicas = reps,
                      !.scale_events = Append(@, ev),
                      !.last_scale_time = t,
                      !.pending_validation =
                         IF Len(reps) > 1
                         THEN [trigger_event |-> "scale_up", trigger_replica |-> rid]
                         ELSE @]
  IN RebalancePartitions(c1)

RemoveAt(s, i) == SubSeq(s, 1, i - 1) \o SubSeq(s, i + 1, Len(s))

\* mutant: the in-flight work of the victim is not handed back
M_KillReplica(c, rid, t) ==
  IF ~HasReplica(c.replicas, rid) \/ Len(c.replicas) <= MIN_AGENT_REPLICAS
  THEN c
  ELSE
    LET i == IndexOfReplica(c.replicas, rid)
        ev == [event |-> "kill", replica_id |-> rid,
               name |-> c.replicas[i].name, timestamp |-> t,
               reason |-> "scale-down",
               total_replicas |-> Len(c.replicas) - 1]
        c1 == [c EXCEPT
                 !.scale_events = Append(@, ev),
                 !.replicas = RemoveAt(@, i),
                 !.last_scale_time = t,
                 !.pending_validation =
                    [trigger_event |-> "scale_down", trigger_replica |-> rid]]
    IN RebalancePartitions(c1)

KillReplica(c, rid, t) ==
  IF ~HasReplica(c.replicas, rid) \/ Len(c.replicas) <= MIN_AGENT_REPLICAS
  THEN c
  ELSE
    LET i == IndexOfReplica(c.replicas, rid)
        ev == [event |-> "kill", replica_id |-> rid,
               name |-> c.replicas[i].name, timestamp |-> t,
               reason |-> "scale-down",
               total_replicas |-> Len(c.replicas) - 1]
        c1 == [c EXCEPT
                 !.work_queue =
                    [n \in 1..Len(c.work_queue) |->
                       IF c.work_queue[n].assigned_to = rid
                       THEN [c.work_queue[n] EXCEPT !.assigned_to = NoRid,
                                                    !.status = "pending"]
                       ELSE c.work_queue[n]],
                 !.scale_events = Append(@, ev),
                 !.replicas = RemoveAt(@, i),
                 !.last_scale_time = t,
                 !.pending_validation =
                    [trigger_event |-> "scale_down", trigger_replica |-> rid]]
    IN RebalancePartitions(c1)

SetServicesFn(c, services) ==
  RebalancePartitions([c EXCEPT !.all_services = services])

\* ------------------------------------------------------------------
\* Work queue
\* ------------------------------------------------------------------
EnqueueFn(c, wid, service_name, task_type, priority) ==
  [c EXCEPT !.work_queue =
     Append(@, WorkItem(wid, service_name, task_type, priority))]

PendingIdx(q) == { n \in 1..Len(q) : q[n].status = "pending" }

\* first index of the set S of naturals
FirstOf(S) == CHOOSE n \in S : \A m \in S : n <= m

\* mutant: the replica is not told what it is processing
M_Dequeue(c, rid) ==
  IF PendingIdx(c.work_queue) = {} THEN c
  ELSE
    LET n == FirstOf(PendingIdx(c.work_queue))
    IN [c EXCEPT !.work_queue[n].status = "processing",
                 !.work_queue[n].assigned_to = rid]

\* dequeue(replica_id)
Dequeue(c, rid) ==
  IF PendingIdx(c.work_queue) = {} THEN c
  ELSE
    LET n == FirstOf(PendingIdx(c.work_queue))
        item == c.work_queue[n]
        c1 == [c EXCEPT !.work_queue[n].status = "processing",
                        !.work_queue[n].assigned_to = rid]
    IN IF HasReplica(c.replicas, rid)
       THEN [c1 EXCEPT !.replicas[IndexOfReplica(c.replicas, rid)].current_task =
               [task_type |-> item.task_type, service |-> item.service_name]]
       ELSE c1

LastN(s, n) == IF Len(s) > n THEN SubSeq(s, Len(s) - n + 1, Len(s)) ELSE s

CompleteWorkFn(c, work_id, success) ==
  LET Hits == { n \in 1..Len(c.work_queue) : c.work_queue[n].id = work_id }
  IN IF Hits = {} THEN c
     ELSE
       LET n == FirstOf(Hits)
           item == [c.work_queue[n] EXCEPT
                      !.status = IF success THEN "completed" ELSE "failed"]
           c1 == [c EXCEPT !.work_queue = RemoveAt(@, n),
                           !.completed_work = LastN(Append(@, item), COMPLETED_RING)]
       IN IF item.assigned_to # NoRid /\ HasReplica(c.replicas, item.assigned_to)
          THEN LET i == IndexOfReplica(c.replicas, item.assigned_to)
               IN [c1 EXCEPT !.replicas[i].analyses_completed = @ + 1,
                             !.replicas[i].current_task = NoTask]
          ELSE c1

\* ------------------------------------------------------------------
\* MAPE-K loop
\* ------------------------------------------------------------------
QueueDepth(c) == Cardinality(PendingIdx(c.work_queue))

Clamp(lo, hi, x) == Min2(hi, Max2(lo, x))

\* load_factor * 40 + task_factor * 30 for a replica: 40 * n / 5 = 8n,
\* plus 45 with a current task and 9 without
CpuBase(r) ==
  (40 * Len(r.assigned_services)) \div MAX_SERVICES_PER_AGENT
    + (IF r.current_task # NoTask THEN 45 ELSE 9)

SumSeq(s) ==
  LET F[n \in 0..Len(s)] == IF n = 0 THEN 0 ELSE F[n - 1] + s[n]
  IN F[Len(s)]

\* random.uniform(-5, 10) is drawn per replica; the sum of the cpu loads
\* ranges over [CpuSumLow, CpuSumHigh]
CpuSumLow(running) ==
  SumSeq([i \in 1..Len(running) |-> Clamp(5, 99, CpuBase(running[i]) - 5)])
CpuSumHigh(running) ==
  SumSeq([i \in 1..Len(running) |-> Clamp(5, 99, CpuBase(running[i]) + 10)])

\* the outcomes "avg_cpu > 80" can have for this replica table
CpuOutcomes(c) ==
  LET running == Running(c.replicas)
      k == Max2(Len(running), 1)
  IN { b \in BOOLEAN :
         IF b THEN CpuSumHigh(running) > CPU_THRESHOLD * k
              ELSE CpuSumLow(running) <= CPU_THRESHOLD * k }

\* mutant: the cooldown comparison made non-strict
M_CooldownOk(c, t) == (t - c.last_scale_time) >= SCALE_COOLDOWN_SECONDS

CooldownOk(c, t) == (t - c.last_scale_time) > SCALE_COOLDOWN_SECONDS

\* mutant: the comparison with the high watermark made non-strict
M_Analyze(c, cpuHigh, t) ==
  LET queue_depth == QueueDepth(c)
      replica_count == Len(Running(c.replicas))
      cooldown_ok == CooldownOk(c, t)
  IN IF queue_depth >= QUEUE_HIGH_WATERMARK
          /\ replica_count < MAX_AGENT_REPLICAS /\ cooldown_ok
     THEN "queue_depth"
     ELSE IF Len(c.all_services) > MAX_SERVICES_PER_AGENT * Max2(replica_count, 1)
          /\ replica_count < MAX_AGENT_REPLICAS /\ cooldown_ok
     THEN "services_per_agent"
     ELSE IF cpuHigh /\ replica_count < MAX_AGENT_REPLICAS /\ cooldown_ok
     THEN "avg_cpu"
     ELSE IF queue_depth < QUEUE_LOW_WATERMARK
          /\ replica_count > MIN_AGENT_REPLICAS /\ cooldown_ok
     THEN "scale_down"
     ELSE "none"

\* the branch of the ANALYZE if/elif chain that is taken
Analyze(c, cpuHigh, t) ==
  LET queue_depth == QueueDepth(c)
      replica_count == Len(Running(c.replicas))
      cooldown_ok == CooldownOk(c, t)
  IN IF queue_depth > QUEUE_HIGH_WATERMARK
          /\ replica_count < MAX_AGENT_REPLICAS /\ cooldown_ok
     THEN "queue_depth"
     ELSE IF Len(c.all_services) > MAX_SERVICES_PER_AGENT * Max2(replica_count, 1)
          /\ replica_count < MAX_AGENT_REPLICAS /\ cooldown_ok
     THEN "services_per_agent"
     ELSE IF cpuHigh /\ replica_count < MAX_AGENT_REPLICAS /\ cooldown_ok
     THEN "avg_cpu"
     ELSE IF queue_depth < QUEUE_LOW_WATERMARK
          /\ replica_count > MIN_AGENT_REPLICAS /\ cooldown_ok
     THEN "scale_down"
     ELSE "none"

\* min(running, key=lambda r: len(r.assigned_services)): the first minimum
LeastBusy(running) ==
  LET i == FirstOf({ j \in 1..Len(running) :
                       \A m \in 1..Len(running) :
                         Len(running[j].assigned_services)
                           <= Len(running[m].assigned_services) })
  IN running[i]

\* mutant: the check of the victim's name dropped
M_KillAllowed(victim) == TRUE

\* may the scale-down branch kill the replica it picked
KillAllowed(victim) == victim.name # PRIMARY_NAME

\* the dispatch loop over the list `running` taken in MONITOR
Dispatch(c, running) ==
  LET F[n \in 0..Len(running)] ==
        IF n = 0 THEN c
        ELSE LET p == F[n - 1]
                 rid == running[n].replica_id
                 cur == IF HasReplica(p.replicas, rid)
                        THEN p.replicas[IndexOfReplica(p.replicas, rid)].current_task
                        ELSE running[n].current_task
             IN IF cur = NoTask THEN Dequeue(p, rid) ELSE p
  IN F[Len(running)]

NoAction == [kind |-> "none", name |-> PRIMARY_NAME, reason |-> "none"]

\* mutant: the scale-down branch keeps killing while a victim is left
M_Execute(c, rid, cpuHigh, t) ==
  LET running == Running(c.replicas)
      branch == Analyze(c, cpuHigh, t)
  IN IF branch \in {"queue_depth", "services_per_agent", "avg_cpu"}
     THEN [c |-> SpawnReplica(c, rid, rid, t),
           action |-> [kind |-> "spawned", name |-> rid, reason |-> branch]]
     ELSE IF branch = "scale_down"
     THEN LET least_busy == LeastBusy(running)
              c1 == KillReplica(c, least_busy.replica_id, t)
              next_busy == LeastBusy(Running(c1.replicas))
          IN IF KillAllowed(least_busy)
             THEN [c |-> IF KillAllowed(next_busy)
                         THEN KillReplica(c1, next_busy.replica_id, t)
                         ELSE c1,
                   action |-> [kind |-> "killed", name |-> least_busy.name,
                               reason |-> "queue_depth"]]
             ELSE [c |-> c, action |-> NoAction]
     ELSE [c |-> c, action |-> NoAction]

\* the replica table after PLAN + EXECUTE, and the action reported
Execute(c, rid, cpuHigh, t) ==
  LET running == Running(c.replicas)
      branch == Analyze(c, cpuHigh, t)
  IN IF branch \in {"queue_depth", "services_per_agent", "avg_cpu"}
     THEN [c |-> SpawnReplica(c, rid, rid, t),
           action |-> [kind |-> "spawned", name |-> rid, reason |-> branch]]
     ELSE IF branch = "scale_down"
     THEN LET least_busy == LeastBusy(running)
          IN IF KillAllowed(least_busy)
             THEN [c |-> KillReplica(c, least_busy.replica_id, t),
                   action |-> [kind |-> "killed", name |-> least_busy.name,
                               reason |-> "queue_depth"]]
             ELSE [c |-> c, action |-> NoAction]
     ELSE [c |-> c, action |-> NoAction]

\* mape_k_tick: the coordinator after the tick and the "action" it returns.
\* rid is the id uuid4 yields if the tick spawns, cpuHigh the outcome of
\* avg_cpu > 80, t the value of time.monotonic()
MapeKTick(c, rid, cpuHigh, t) ==
  LET running == Running(c.replicas)
      ex == Execute(c, rid, cpuHigh, t)
  IN [c |-> Dispatch(ex.c, running), action |-> ex.action]

\* ------------------------------------------------------------------
\* Network validation after scale events
\* ------------------------------------------------------------------
\* run_pending_validation up to its await: the slot is read and cleared;
\* `started` is the validation now suspended (NoValidation if none)
StartValidation(c) ==
  [c |-> [c EXCEPT !.pending_validation = NoValidation],
   started |-> c.pending_validation]

\* mutant: the ring is never trimmed
M_PushValidation(results, v) ==
  Append(results, [trigger_event |-> v.trigger_event,
                   trigger_replica |-> v.trigger_replica])

\* run_pending_validation after its await: the result joins the ring
PushValidation(results, v) ==
  LastN(Append(results, [trigger_event |-> v.trigger_event,
                         trigger_replica |-> v.trigger_replica]),
        VALIDATION_RING)

InflightAfter(v) ==
  IF v = NoValidation THEN inflight ELSE inflight (+) SetToBag({v})

\* ------------------------------------------------------------------
\* Knowledge store (backend/memory/store.py)
\*
\* Representation choices:
\*  - a str is the sequence of its characters (one-character strings);
\*  - a confidence is an integer number of hundredths (0.52 is 52);
\*  - an ISO timestamp is the reading of the counter mclock;
\*  - an id "ins-<hex8>", "pat-<hex8>" or "sess-<hex8>" is a natural
\*    number, a fresh one being the counter next_uid;
\*  - a key a dict may lack has a value that says so: NoId, NoStatus,
\*    NoConf, NoOcc, NoTime, NoText;
\*  - the dict data["services"] is a sequence in insertion order.
\* ------------------------------------------------------------------
SIMILAR_PREFIX == 40       \* a[:40]
OVERLAP_NUM == 6           \* overlap > 0.6, as 10 * overlap > 6
OVERLAP_DEN == 10
CONF_CAP == 99             \* min(0.99, ...)
CONF_STEP == 2             \* + 0.02
CONF_DEFAULT == 50         \* existing.get("confidence", 0.5)
HISTORY_RING == 100        \* analysis_history[-100:]

MaxOps == 3                \* store operations ever started
Threads == {1, 2}          \* callers that may be inside the store at once

NoId == 0
NoStatus == "absent"
NoConf == -1
NoOcc == 0
NoTime == -1

\* str.lower() on the characters the descriptions use
LowerCh(ch) ==
  CASE ch = "A" -> "a" [] ch = "B" -> "b" [] ch = "C" -> "c"
    [] ch = "X" -> "x" [] OTHER -> ch

LowerStr(s) == [i \in 1..Len(s) |-> LowerCh(s[i])]

\* s[:n]
Take(s, n) == SubSeq(s, 1, Min2(n, Len(s)))

\* set(s.split()): the maximal runs of non-blank characters
WordSet(s) ==
  LET Starts == { i \in 1..Len(s) : s[i] # " " /\ (i = 1 \/ s[i - 1] = " ") }
      EndOf(i) == FirstOf({ j \in i..Len(s) : j = Len(s) \/ s[j + 1] = " " })
  IN { SubSeq(s, i, EndOf(i)) : i \in Starts }

\* mutant: the overlap is taken over the union of the two word sets
M_Similar(a, b) ==
  \/ LowerStr(Take(a, SIMILAR_PREFIX)) = LowerStr(Take(b, SIMILAR_PREFIX))
  \/ LET words_a == WordSet(LowerStr(a))
         words_b == WordSet(LowerStr(b))
     IN /\ words_a # {} /\ words_b # {}
        /\ OVERLAP_DEN * Cardinality(words_a \cap words_b)
             > OVERLAP_NUM * Cardinality(words_a \cup words_b)

\* _similar(a, b)
Similar(a, b) ==
  \/ LowerStr(Take(a, SIMILAR_PREFIX)) = LowerStr(Take(b, SIMILAR_PREFIX))
  \/ LET words_a == WordSet(LowerStr(a))
         words_b == WordSet(LowerStr(b))
     IN /\ words_a # {} /\ words_b # {}
        /\ OVERLAP_DEN * Cardinality(words_a \cap words_b)
             > OVERLAP_NUM * Max2(Cardinality(words_a), Cardinality(words_b))

\* _default_memory()
DefaultMemory ==
  [last_updated |-> 0, services |-> <<>>, global_patterns |-> <<>>,
   analysis_history |-> <<>>]

NoBaseline == [p99_latency_ms |-> 0, measured_at |-> NoTime]

\* service in data["services"]
HasService(data, service) ==
  \E i \in 1..Len(data.services) : data.services[i].name = service

\* _ensure_service(data, service)
EnsureService(data, service) ==
  IF HasService(data, service) THEN data
  ELSE [data EXCEPT !.services =
          Append(@, [name |-> service, baseline_metrics |-> NoBaseline,
                     patterns |-> <<>>, insights |-> <<>>])]

\* data["services"][service]
SvcIndex(data, service) ==
  CHOOSE i \in 1..Len(data.services) : data.services[i].name = service

\* _atomic_write(data): the document that replaces the file
AtomicWrite(data, ts) == [data EXCEPT !.last_updated = ts]

\* add_insight(service, insight); uid is the id uuid4 yields, ts the clock
AddInsightFn(data, service, insight, uid, ts) ==
  LET d1 == EnsureService(data, service)
      insight_id == IF insight.id # NoId THEN insight.id ELSE uid
      ins == [insight EXCEPT
                !.id = insight_id,
                !.timestamp = IF @ = NoTime THEN ts ELSE @,
                !.status = IF @ = NoStatus THEN "open" ELSE @]
      i == SvcIndex(d1, service)
  IN [data |-> [d1 EXCEPT !.services[i].insights = Append(@, ins)],
      ret |-> insight_id, wrote |-> TRUE]

\* the entries get_all_insights builds, before the sort: every insight,
\* service by service, with the key "service" set to the service's name
InsightEntries(data) ==
  LET F[n \in 0..Len(data.services)] ==
        IF n = 0 THEN <<>>
        ELSE F[n - 1] \o
             [k \in 1..Len(data.services[n].insights) |->
                [id |-> data.services[n].insights[k].id,
                 timestamp |-> data.services[n].insights[k].timestamp,
                 status |-> data.services[n].insights[k].status,
                 title |-> data.services[n].insights[k].title,
                 severity |-> data.services[n].insights[k].severity,
                 recommendation |-> data.services[n].insights[k].recommendation,
                 service |-> data.services[n].name]]
  IN F[Len(data.services)]

\* list.sort(key=timestamp, reverse=True): stable, newest first
SortNewestFirst(s) ==
  LET Ins(sorted, e) ==
        LET before == { k \in 1..Len(sorted) : sorted[k].timestamp < e.timestamp }
            pos == IF before = {} THEN Len(sorted) + 1 ELSE FirstOf(before)
        IN SubSeq(sorted, 1, pos - 1) \o <<e>> \o SubSeq(sorted, pos, Len(sorted))
      F[n \in 0..Len(s)] == IF n = 0 THEN <<>> ELSE Ins(F[n - 1], s[n])
  IN F[Len(s)]

\* get_all_insights(status=None)
GetAllInsights(data) == SortNewestFirst(InsightEntries(data))

\* update_insight_status(insight_id, status): the first insight with that
\* id, services and insights taken in order; nothing is saved if none
UpdateInsightStatusFn(data, insight_id, status) ==
  LET Hits == UNION { { <<i, k>> : k \in
                          { k \in 1..Len(data.services[i].insights) :
                              data.services[i].insights[k].id = insight_id } } :
                      i \in 1..Len(data.services) }
  IN IF Hits = {} THEN [data |-> data, ret |-> FALSE, wrote |-> FALSE]
     ELSE LET h == CHOOSE h \in Hits :
                     \A g \in Hits : h[1] < g[1] \/ (h[1] = g[1] /\ h[2] <= g[2])
          IN [data |-> [data EXCEPT !.services[h[1]].insights[h[2]].status = status],
              ret |-> TRUE, wrote |-> TRUE]

\* get_all_insights(status): the entries with that status, newest first
GetAllInsightsWith(data, status) ==
  SortNewestFirst(SelectSeq(InsightEntries(data), LAMBDA e : e.status = status))

\* mutant: the recommendations are taken from the insights of every status
M_GetRecommendations(data) ==
  SelectSeq(GetAllInsights(data),
            LAMBDA e : e.severity \in {"high", "critical"} /\ e.recommendation # "")

\* get_recommendations()
GetRecommendations(data) ==
  SelectSeq(GetAllInsightsWith(data, "open"),
            LAMBDA e : e.severity \in {"high", "critical"} /\ e.recommendation # "")

\* mutant: every status passes the check of the route
M_StatusAccepted(status) == TRUE

\* patch_insight: body.status in ("acknowledged", "resolved", "open")
StatusAccepted(status) == status \in {"acknowledged", "resolved", "open"}

\* PATCH /api/insights/{insight_id}: the status code of the response and
\* the file afterwards
PatchInsightFn(data, insight_id, status, ts) ==
  IF ~StatusAccepted(status) THEN [code |-> 400, data |-> data]
  ELSE LET r == UpdateInsightStatusFn(data, insight_id, status)
       IN IF ~r.ret THEN [code |-> 404, data |-> data]
          ELSE [code |-> 200, data |-> AtomicWrite(r.data, ts)]

\* mutant: a merge resets the occurrence count
M_AddPatternFn(data, service, pattern, uid, ts) ==
  LET d1 == EnsureService(data, service)
      i == SvcIndex(d1, service)
      patterns == d1.services[i].patterns
      Hits == { k \in 1..Len(patterns) :
                  /\ patterns[k].type = pattern.type
                  /\ Similar(patterns[k].description, pattern.description) }
  IN IF Hits # {}
     THEN LET k == FirstOf(Hits)
              existing == patterns[k]
              merged == [existing EXCEPT
                           !.last_confirmed = ts,
                           !.occurrences = 2,
                           !.confidence =
                             Min2(CONF_CAP,
                                  (IF @ = NoConf THEN CONF_DEFAULT ELSE @) + CONF_STEP),
                           !.recommendation =
                             IF pattern.recommendation # "" THEN pattern.recommendation
                             ELSE @]
          IN [data |-> [d1 EXCEPT !.services[i].patterns[k] = merged],
              ret |-> existing.id, wrote |-> TRUE]
     ELSE LET pat_id == IF pattern.id # NoId THEN pattern.id ELSE uid
              pat == [pattern EXCEPT
                        !.id = pat_id,
                        !.first_detected = IF @ = NoTime THEN ts ELSE @,
                        !.last_confirmed = IF @ = NoTime THEN ts ELSE @,
                        !.occurrences = IF @ = NoOcc THEN 1 ELSE @]
          IN [data |-> [d1 EXCEPT !.services[i].patterns = Append(@, pat)],
              ret |-> pat_id, wrote |-> TRUE]

\* add_pattern(service, pattern)
AddPatternFn(data, service, pattern, uid, ts) ==
  LET d1 == EnsureService(data, service)
      i == SvcIndex(d1, service)
      patterns == d1.services[i].patterns
      Hits == { k \in 1..Len(patterns) :
                  /\ patterns[k].type = pattern.type
                  /\ Similar(patterns[k].description, pattern.description) }
  IN IF Hits # {}
     THEN LET k == FirstOf(Hits)
              existing == patterns[k]
              merged == [existing EXCEPT
                           !.last_confirmed = ts,
                           !.occurrences = (IF @ = NoOcc THEN 1 ELSE @) + 1,
                           !.confidence =
                             Min2(CONF_CAP,
                                  (IF @ = NoConf THEN CONF_DEFAULT ELSE @) + CONF_STEP),
                           !.recommendation =
                             IF pattern.recommendation # "" THEN pattern.recommendation
                             ELSE @]
          IN [data |-> [d1 EXCEPT !.services[i].patterns[k] = merged],
              ret |-> existing.id, wrote |-> TRUE]
     ELSE LET pat_id == IF pattern.id # NoId THEN pattern.id ELSE uid
              pat == [pattern EXCEPT
                        !.id = pat_id,
                        !.first_detected = IF @ = NoTime THEN ts ELSE @,
                        !.last_confirmed = IF @ = NoTime THEN ts ELSE @,
                        !.occurrences = IF @ = NoOcc THEN 1 ELSE @]
          IN [data |-> [d1 EXCEPT !.services[i].patterns = Append(@, pat)],
              ret |-> pat_id, wrote |-> TRUE]

\* update_baseline(service, metrics)
UpdateBaselineFn(data, service, metrics, ts) ==
  LET d1 == EnsureService(data, service)
      i == SvcIndex(d1, service)
  IN [data |-> [d1 EXCEPT !.services[i].baseline_metrics =
                  [p99_latency_ms |-> metrics, measured_at |-> ts]],
      ret |-> NoId, wrote |-> TRUE]

\* mutant: the history keeps its first 100 sessions
M_RecordAnalysisFn(data, session, uid, ts) ==
  LET session_id == IF session.session_id # NoId THEN session.session_id ELSE uid
      sess == [session EXCEPT !.session_id = session_id,
                              !.timestamp = IF @ = NoTime THEN ts ELSE @]
  IN [data |-> [data EXCEPT !.analysis_history =
                  SubSeq(Append(@, sess), 1, Min2(Len(@) + 1, HISTORY_RING))],
      ret |-> session_id, wrote |-> TRUE]

\* record_analysis(session)
RecordAnalysisFn(data, session, uid, ts) ==
  LET session_id == IF session.session_id # NoId THEN session.session_id ELSE uid
      sess == [session EXCEPT !.session_id = session_id,
                              !.timestamp = IF @ = NoTime THEN ts ELSE @]
  IN [data |-> [data EXCEPT !.analysis_history =
                  LastN(Append(@, sess), HISTORY_RING)],
      ret |-> session_id, wrote |-> TRUE]

\* ------------------------------------------------------------------
\* Callers of the store
\* ------------------------------------------------------------------
Services == {"svc-a", "svc-b"}

\* a str of n copies of the character ch
Rep(ch, n) == [i \in 1..n |-> ch]

D_BASE == <<"a", "a", " ", "b", "b", " ", "c", "c", " ", "x", "x">>
D_SWAP == <<"a", "a", " ", "b", "b", " ", "c", "c", " ", "y", "y">>
D_UPPER == <<"A", "A", " ", "B", "B", " ", "C", "C", " ", "X", "X">>
D_REORDER == <<"x", "x", " ", "c", "c", " ", "b", "b", " ", "a", "a">>
D_FIVE_A == <<"a", "a", " ", "b", "b", " ", "c", "c", " ", "d", "d", " ", "e", "e">>
D_FIVE_B == <<"a", "a", " ", "b", "b", " ", "c", "c", " ", "x", "x", " ", "y", "y">>
D_OTHER == <<"d", "d", " ", "e", "e">>
D_LONG_X == Rep("p", SIMILAR_PREFIX) \o <<"x">>
D_LONG_Y == Rep("p", SIMILAR_PREFIX) \o <<"y">>
D_EMPTY == <<>>

Descriptions ==
  {D_BASE, D_SWAP, D_UPPER, D_REORDER, D_FIVE_A, D_FIVE_B, D_OTHER,
   D_LONG_X, D_LONG_Y, D_EMPTY}

PatternTypes == {"latency_spike", "cascade_risk"}

\* the dict a caller passes to add_pattern
Pattern(type, description, confidence, recommendation) ==
  [id |-> NoId, type |-> type, description |-> description,
   confidence |-> confidence, recommendation |-> recommendation,
   first_detected |-> NoTime, last_confirmed |-> NoTime,
   occurrences |-> NoOcc]

\* the patterns the callers of the model store
PatternInputs ==
  { Pattern("latency_spike", D_BASE, 50, ""),
    Pattern("latency_spike", D_SWAP, NoConf, "r1"),
    Pattern("latency_spike", D_FIVE_A, 100, ""),
    Pattern("cascade_risk", D_BASE, 98, "") }

\* every pattern add_pattern is tried with
PatternProbes ==
  { Pattern(type, d, conf, "") :
      type \in PatternTypes, d \in Descriptions, conf \in {NoConf, 100} }

\* the dict a caller passes to add_insight: a new one, one that already
\* has the id of an earlier call, one that already has a status
Insight(id, status) ==
  [id |-> id, status |-> status, timestamp |-> NoTime, title |-> "t",
   severity |-> "low", recommendation |-> ""]

InsightInputs ==
  { Insight(NoId, NoStatus), Insight(1, NoStatus), Insight(NoId, "resolved") }

NoOp == [kind |-> "none"]

PatternOps ==
  { [kind |-> "add_pattern", service |-> "svc-a", pattern |-> p] :
      p \in PatternInputs }

StoreOps ==
  { [kind |-> "add_insight", service |-> s, insight |-> i] :
      s \in Services, i \in InsightInputs }
  \cup { [kind |-> "add_pattern", service |-> "svc-a",
          pattern |-> Pattern("latency_spike", D_BASE, 50, "")] }
  \cup { [kind |-> "update_insight_status", insight_id |-> 1,
          status |-> "acknowledged"] }
  \cup { [kind |-> "update_baseline", service |-> "svc-a", metrics |-> 120] }
  \cup { [kind |-> "record_analysis",
          session |-> [session_id |-> NoId, timestamp |-> NoTime]] }

\* the body of a store operation between load_memory and save_memory
ApplyOp(data, op, uid, ts) ==
  CASE op.kind = "add_insight" ->
         AddInsightFn(data, op.service, op.insight, uid, ts)
    [] op.kind = "add_pattern" ->
         AddPatternFn(data, op.service, op.pattern, uid, ts)
    [] op.kind = "update_insight_status" ->
         UpdateInsightStatusFn(data, op.insight_id, op.status)
    [] op.kind = "update_baseline" ->
         UpdateBaselineFn(data, op.service, op.metrics, ts)
    [] op.kind = "record_analysis" ->
         RecordAnalysisFn(data, op.session, uid, ts)

\* the file after the operation op has run on the document data
Persisted(data, op, uid, ts) ==
  LET r == ApplyOp(data, op, uid, ts)
  IN IF r.wrote THEN AtomicWrite(r.data, ts) ELSE data

storeVars == <<mem, threads, next_uid, mclock>>

IdleThread ==
  [pc |-> "idle", op |-> NoOp, data |-> DefaultMemory, base |-> DefaultMemory,
   uid |-> NoId, ts |-> NoTime]

InitStore ==
  /\ mem = DefaultMemory
  /\ threads = [t \in Threads |-> IdleThread]
  /\ next_uid = 1
  /\ mclock = 1


\* ------------------------------------------------------------------
\* Callers that use the store one after the other: analyze_service and
\* generate_insights record sessions, the agent's tools and the hooks
\* store insights, the insights routes patch and list them
\* ------------------------------------------------------------------
MaxSessions == 102         \* record_analysis calls ever made
MaxInsights == 2           \* add_insight calls ever made
MaxStamp == 4              \* the store's clock stops here

GIVEN_SESSION == 1000      \* a session_id the caller chose itself

\* the dict a caller passes to record_analysis: none of the callers sets
\* session_id, the function takes one that is set
SessionInputs ==
  { [session_id |-> NoId, timestamp |-> NoTime],
    [session_id |-> GIVEN_SESSION, timestamp |-> NoTime] }

\* the dict store_insight and the hooks pass to add_insight: no id, no
\* status, a severity, a recommendation that may be empty
InsightOf(severity, recommendation) ==
  [Insight(NoId, NoStatus) EXCEPT !.severity = severity,
                                  !.recommendation = recommendation]

NewInsights ==
  { InsightOf("high", "r"), InsightOf("critical", "r"),
    InsightOf("high", ""), InsightOf("medium", "r") }

\* the add_insight calls of the callers
NewInsightCalls ==
  { [service |-> "svc-a", insight |-> InsightOf("high", "r")],
    [service |-> "svc-a", insight |-> InsightOf("medium", "r")],
    [service |-> "svc-b", insight |-> InsightOf("critical", "r")],
    [service |-> "svc-b", insight |-> InsightOf("high", "")] }

\* the statuses PATCH is sent with
PatchStatuses == {"open", "acknowledged", "resolved", "closed"}

\* the ids PATCH is sent with: those add_insight has given out, and one
\* it has not
PatchIds == 1..(MaxInsights + 1)

callVars == <<recorded, resp>>

NoResponse == [insight_id |-> NoId, status |-> "", code |-> 0, changed |-> FALSE]

InitCalls ==
  /\ recorded = <<>>
  /\ resp = NoResponse

\* ------------------------------------------------------------------
\* The two files of a save (store.py:45-67)
\*
\*  - the content of a file is the sequence of the pieces json.dump has
\*    written to it: "{", one piece per top-level key, "}"; a file that
\*    open(..., "w") has just truncated is the empty sequence;
\*  - json.load yields the document of a content that is complete and
\*    fails on every other content (ParseError);
\*  - path.exists() is false for a path whose content is Absent.
\* ------------------------------------------------------------------
MEMORY_FILE == "insights.json"
Paths == {"insights.json", "insights.tmp"}

Absent == <<"absent">>
ParseError == [error |-> "JSONDecodeError"]

\* json.dump(data, f): the pieces written, in order
Serialize(data) ==
  <<"{", [key |-> "last_updated", val |-> data.last_updated],
    [key |-> "services", val |-> data.services],
    [key |-> "global_patterns", val |-> data.global_patterns],
    [key |-> "analysis_history", val |-> data.analysis_history], "}">>

\* json.load(f) on a file with this content
Parse(content) ==
  IF /\ content # Absent
     /\ Len(content) = 6
     /\ content[1] = "{"
     /\ content[6] = "}"
  THEN [last_updated |-> content[2].val, services |-> content[3].val,
        global_patterns |-> content[4].val,
        analysis_history |-> content[5].val]
  ELSE ParseError

\* mutant: the document is written over the file itself
M_TmpOf(path) == path

\* _MEMORY_FILE.with_suffix(".tmp")
TmpOf(path) == "insights.tmp"

\* load_memory() as far as it reads: the default document if the file
\* does not exist, what json.load makes of the file otherwise
LoadMemory(d) ==
  IF d.files[MEMORY_FILE] = Absent THEN DefaultMemory
  ELSE Parse(d.files[MEMORY_FILE])

\* mutant: open succeeds on a path that cannot be written
M_OpenForWrite(d, path) ==
  [disk |-> [d EXCEPT !.files[path] = <<>>], raised |-> FALSE]

\* open(path, "w"): OSError and no change if the path cannot be written,
\* an empty file otherwise
OpenForWrite(d, path) ==
  IF d.writable
  THEN [disk |-> [d EXCEPT !.files[path] = <<>>], raised |-> FALSE]
  ELSE [disk |-> d, raised |-> TRUE]

\* f.write(piece) for the next piece of json.dump
WritePiece(d, path, data) ==
  [d EXCEPT !.files[path] = Append(@, Serialize(data)[Len(@) + 1])]

\* tmp.replace(_MEMORY_FILE): rename(2), one step of the file system
Replace(d, from, to) ==
  IF from = to THEN d
  ELSE [d EXCEPT !.files[to] = d.files[from], !.files[from] = Absent]

\* the store operations whose saves are followed step by step
DiskOps ==
  { [kind |-> "add_insight", service |-> "svc-a",
     insight |-> Insight(NoId, NoStatus)],
    [kind |-> "update_insight_status", insight_id |-> 1,
     status |-> "acknowledged"],
    [kind |-> "update_baseline", service |-> "svc-b", metrics |-> 120],
    [kind |-> "record_analysis",
     session |-> [session_id |-> NoId, timestamp |-> NoTime]] }

diskVars == <<disk, saver>>

NoSave == [pc |-> "idle", before |-> DefaultMemory, data |-> DefaultMemory]

\* the file exists and holds the default document (load_memory has run)
InitDisk ==
  /\ disk = [files |-> [p \in Paths |->
                          IF p = MEMORY_FILE THEN Serialize(DefaultMemory)
                          ELSE Absent],
             writable |-> TRUE]
  /\ saver = NoSave

\* ------------------------------------------------------------------
\* Activity log (backend/agent/activity_log.py)
\*
\*  - the deque _log is a sequence, oldest entry first;
\*  - an entry is its id and its event_type; ts, summary, detail and
\*    metadata are left out;
\*  - _counter += 1 is a read of the global followed by a write of it.
\* ------------------------------------------------------------------
MAX_ENTRIES == 200
MaxActivity == 202         \* log_activity calls ever started

Loggers == {1, 2}          \* threads that call log_activity
NoThread == 0

\* deque(maxlen=_MAX_ENTRIES).append(entry)
DequeAppend(log, entry) == LastN(Append(log, entry), MAX_ENTRIES)

logVars == <<act_log, act_counter, act_lock, loggers, issued>>

IdleLogger == [pc |-> "idle", reg |-> 0]

InitLog ==
  /\ act_log = <<>>
  /\ act_counter = 0
  /\ act_lock = NoThread
  /\ loggers = [t \in Loggers |-> IdleLogger]
  /\ issued = <<>>

\* ------------------------------------------------------------------
\* Agent orchestrator (backend/agent/agent.py)
\*
\*  - the text an LLM returns is a sequence of tokens: "{", "}",
\*    "<think>", "</think>", "report" (the members of a well-formed
\*    report), "broken" (text that is no JSON), "noise" (prose);
\*  - datetime.now() is the counter wall, TicksPerHour ticks to the hour;
\*  - random.Random(seed) is a fixed function of the seed that the model
\*    does not compute: rng names one of the candidates for it, and
\*    Draws(seed) is what the calls of _demo_analyze_service to the
\*    generator yield under that candidate;
\*  - a report is a record with the thirteen keys of the report shape;
\*    latencies and texts built from them are left out of the values;
\*  - run_id is the number of the call.
\* ------------------------------------------------------------------
MINIMAX_BACKGROUND_TIMEOUT == 60

TicksPerHour == 2          \* readings of the clock per hour
MaxWall == 2               \* the wall clock stops here
MaxCalls == 2              \* analyze_service calls ever made

Calls == 1..MaxCalls

SCORE_LADDER == <<95, 88, 72, 65, 42, 38, 25>>
HEALTHY_FROM == 80
DEGRADED_FROM == 50

\* root_causes of _demo_analyze_service: cause and service, the third
\* one naming the analysed service itself
RootCauses(service_name) ==
  << [cause |-> "unindexed query", service |-> "postgres-orders"],
     [cause |-> "cache eviction storm", service |-> "redis-cache"],
     [cause |-> "n+1 query pattern", service |-> service_name],
     [cause |-> "retry storm", service |-> "api-gateway"],
     [cause |-> "pool exhaustion", service |-> "postgres-catalog"],
     [cause |-> "gateway degradation", service |-> "payment-gateway"] >>

ReportShape ==
  {"run_id", "timestamp", "service", "health_score", "status", "anomalies",
   "root_cause", "root_cause_service", "affected_upstream",
   "recommended_action", "actions_taken", "validation", "chat_summary"}

\* ord(c) for the characters of the service names
Ord(ch) ==
  CASE ch = "s" -> 115 [] ch = "v" -> 118 [] ch = "c" -> 99
    [] ch = "-" -> 45 [] ch = "a" -> 97 [] ch = "b" -> 98

\* the characters of a service name
CharsOf(service_name) ==
  CASE service_name = "svc-a" -> <<"s", "v", "c", "-", "a">>
    [] service_name = "svc-b" -> <<"s", "v", "c", "-", "b">>

\* sum(ord(c) for c in service_name)
NameSeed(service_name) ==
  LET chars == CharsOf(service_name)
      F[n \in 0..Len(chars)] == IF n = 0 THEN 0 ELSE F[n - 1] + Ord(chars[n])
  IN F[Len(chars)]

\* mutant: the seed takes the reading of the clock, not its hour
M_HourOf(t) == t

\* now.hour
HourOf(t) == (t \div TicksPerHour) % 24

\* the candidates for random.Random: one per offset, so that every score
\* and every root cause is drawn under some candidate and neighbouring
\* seeds draw differently
RngCandidates == 0..6

\* what rng.choice(scores) and rng.choice(root_causes) yield for a seed
Draws(seed, candidate) ==
  [score |-> ((seed + candidate) % Len(SCORE_LADDER)) + 1,
   cause |-> ((seed + candidate) % 6) + 1]

\* _demo_analyze_service(service_name, run_id) when the clock reads t
DemoAnalyze(service_name, run_id, t, candidate) ==
  LET draws == Draws(NameSeed(service_name) + HourOf(t), candidate)
      health_score == SCORE_LADDER[draws.score]
      status == IF health_score >= HEALTHY_FROM THEN "healthy"
                ELSE IF health_score >= DEGRADED_FROM THEN "degraded"
                ELSE "critical"
      chosen == RootCauses(service_name)[draws.cause]
      actions_taken ==
        IF status = "critical" THEN <<"scale_ecs", "update_ssm">>
        ELSE IF status = "degraded" THEN <<"update_ssm">>
        ELSE <<>>
  IN [run_id |-> run_id, timestamp |-> t, service |-> service_name,
      health_score |-> health_score, status |-> status,
      anomalies |->
        (IF health_score < HEALTHY_FROM THEN <<"latency_spike">> ELSE <<>>)
        \o (IF health_score < DEGRADED_FROM THEN <<"error_rate_spike">> ELSE <<>>),
      root_cause |-> chosen.cause, root_cause_service |-> chosen.service,
      affected_upstream |-> <<"api-gateway">>,
      recommended_action |->
        IF actions_taken # <<>> THEN actions_taken[1] ELSE "continue monitoring",
      actions_taken |-> actions_taken,
      validation |-> [recovered |-> status # "healthy"],
      chat_summary |-> status]

\* the report a working LLM returns for the service
LlmReport(service_name, run_id) ==
  [run_id |-> run_id, timestamp |-> 0, service |-> service_name,
   health_score |-> 90, status |-> "healthy", anomalies |-> <<>>,
   root_cause |-> "none found", root_cause_service |-> service_name,
   affected_upstream |-> <<>>, recommended_action |-> "none",
   actions_taken |-> <<>>, validation |-> [recovered |-> TRUE],
   chat_summary |-> "llm"]

\* the value json.loads yields for the members between the braces: the
\* report, or the empty object
Parsed(body, service_name, run_id) ==
  IF body = <<>> THEN <<>> ELSE LlmReport(service_name, run_id)

\* report.get(key)
NoValue == -1
Get(report, key) == IF key \in DOMAIN report THEN report[key] ELSE NoValue

\* re.sub(r"<think>.*?</think>", "", text): every stretch from a
\* "<think>" to the nearest "</think>" after it is dropped
StripThinking(text) ==
  LET Closes(i) == { j \in (i + 1)..Len(text) : text[j] = "</think>" }
      \* F[i]: the text from position i on, stripped
      F[k \in 0..Len(text)] ==
        LET i == Len(text) - k + 1
        IN IF k = 0 THEN <<>>
           ELSE IF text[i] = "<think>" /\ Closes(i) # {}
                THEN F[Len(text) - FirstOf(Closes(i))]
                ELSE <<text[i]>> \o F[k - 1]
  IN F[Len(text)]

\* text.index("{"), text.rindex("}") + 1 and json.loads(text[start:end]):
\* the exception raised, or none and the parsed value
ExtractJson(text) ==
  LET Opens == { i \in 1..Len(text) : text[i] = "{" }
      Shuts == { i \in 1..Len(text) : text[i] = "}" }
  IN IF Opens = {} \/ Shuts = {} THEN [raised |-> "ValueError", body |-> <<>>]
     ELSE LET start == FirstOf(Opens)
              end == CHOOSE i \in Shuts : \A j \in Shuts : j <= i
              piece == SubSeq(text, start, end)
          IN IF Len(piece) >= 2 /\ \A i \in 2..(Len(piece) - 1) : piece[i] = "report"
             THEN [raised |-> "none", body |-> SubSeq(piece, 2, Len(piece) - 1)]
             ELSE [raised |-> "JSONDecodeError", body |-> <<>>]

\* what agent(prompt) does in the executor: it raises, the client times
\* out, or it returns a text
LlmTexts ==
  { <<"noise", "{", "report", "}", "noise">>,
    <<"{", "}">>,
    <<"<think>", "{", "</think>", "{", "report", "}">>,
    <<"noise">>,
    <<>>,
    <<"{", "broken", "}">>,
    <<"}", "noise", "{">>,
    <<"{", "report">>,
    <<"<think>", "{", "report", "}", "</think>", "noise">> }

LlmResults ==
  { [kind |-> "raises", text |-> <<>>], [kind |-> "timeout", text |-> <<>>] }
  \cup { [kind |-> "text", text |-> t] : t \in LlmTexts }

\* the exception the try block of analyze_service ends with, or none
TryRaised(result) ==
  CASE result.kind = "raises" -> "RuntimeError"
    [] result.kind = "timeout" -> "TimeoutError"
    [] OTHER -> ExtractJson(StripThinking(result.text)).raised

\* the LLM has failed: it raised, timed out, or returned no text with an
\* enclosing {...} that parses
LlmFailed(result) == TryRaised(result) # "none"

\* mutant: the handler catches the parsing errors only
M_Caught(exc) == exc \in {"ValueError", "JSONDecodeError"}

\* except Exception: every exception of the try block is one
Caught(exc) == exc \in {"RuntimeError", "TimeoutError", "ValueError", "JSONDecodeError"}

\* the insights and patterns _generate_demo_insights_for_service stores:
\* one per category for the first categories of the shuffle, two patterns
DemoInsights ==
  << InsightOf("high", "r"), InsightOf("critical", "r"),
     InsightOf("medium", "r"), InsightOf("low", "r") >>

DemoInsightCounts == {2, 4}

DemoPatterns ==
  << Pattern("latency_spike", D_BASE, 87, "r1"),
     Pattern("cascade_risk", D_OTHER, 95, "r1") >>

\* a store operation run and saved: the document, the next uuid and the
\* clock afterwards
Saved(st, r) ==
  [data |-> IF r.wrote THEN AtomicWrite(r.data, st.ts) ELSE st.data,
   uid |-> st.uid + 1, ts |-> st.ts + 1]

\* _generate_demo_insights_for_service(service_name) storing n insights
DemoInsightsFor(st, service_name, n) ==
  LET s0 == Saved(st, UpdateBaselineFn(st.data, service_name, 150, st.ts))
      I[k \in 0..n] ==
        IF k = 0 THEN s0
        ELSE LET prev == I[k - 1]
             IN Saved(prev, AddInsightFn(prev.data, service_name,
                                         DemoInsights[k], prev.uid, prev.ts))
      P[k \in 0..Len(DemoPatterns)] ==
        IF k = 0 THEN I[n]
        ELSE LET prev == P[k - 1]
             IN Saved(prev, AddPatternFn(prev.data, service_name,
                                         DemoPatterns[k], prev.uid, prev.ts))
  IN P[Len(DemoPatterns)]

\* analyze_service from the end of the awaited LLM call to its return:
\* the exception it ends with or none, the report, and the store
AnalyzeFn(st, service_name, run_id, result, t, candidate, n) ==
  LET exc == TryRaised(result)
  IN IF exc # "none" /\ ~Caught(exc)
     THEN [raised |-> exc, report |-> <<>>, st |-> st]
     ELSE LET report == IF exc # "none"
                        THEN DemoAnalyze(service_name, run_id, t, candidate)
                        ELSE Parsed(ExtractJson(StripThinking(result.text)).body,
                                    service_name, run_id)
              s1 == Saved(st, RecordAnalysisFn(st.data,
                                [session_id |-> NoId, timestamp |-> NoTime],
                                st.uid, st.ts))
              s2 == IF Get(report, "health_score") # NoValue
                    THEN Saved(s1, UpdateBaselineFn(s1.data, service_name,
                                                    report.health_score, s1.ts))
                    ELSE s1
          IN [raised |-> "none", report |-> report,
              st |-> DemoInsightsFor(s2, service_name, n)]

\* what the background model does with the prompt: whether there is a
\* model, the seconds it takes, and how it answers
BgRuns ==
  { [model |-> FALSE, seconds |-> 0, answer |-> "none"] }
  \cup { [model |-> TRUE, seconds |-> s, answer |-> a] :
           s \in {1, MINIMAX_BACKGROUND_TIMEOUT + 1},
           a \in {"raises", "empty", "unparseable", "wrong_shape", "well_formed"} }

\* _run_minimax_background and the parsing of _fire_minimax_background:
\* how the task gets on
BgOutcome(run) ==
  IF ~run.model THEN "no_model"
  ELSE IF run.seconds > MINIMAX_BACKGROUND_TIMEOUT THEN "timeout"
  ELSE IF run.answer = "well_formed" THEN "stored"
  ELSE run.answer

\* _fire_minimax_background: the exception the task ends with, or none
BgRaised(outcome) ==
  IF outcome = "wrong_shape" THEN "AttributeError" ELSE "none"

\* _fire_minimax_background: what the task stores
BgStore(st, service_name, outcome) ==
  IF outcome = "stored"
  THEN LET s1 == Saved(st, AddInsightFn(st.data, service_name,
                                        InsightOf("low", "r"), st.uid, st.ts))
       IN Saved(s1, AddPatternFn(s1.data, service_name,
                                 Pattern("detected", D_EMPTY, 50, ""),
                                 s1.uid, s1.ts))
  ELSE st

\* mutant: a failure of the task reaches the call that created it
M_ForegroundAfter(call, outcome) ==
  IF outcome \in {"timeout", "raises", "unparseable", "wrong_shape"}
  THEN [call EXCEPT !.raised = "BackgroundError", !.report = <<>>]
  ELSE call

\* the call after its background task has ended: the task reads
\* main_report and its exception stays in the task
ForegroundAfter(call, outcome) == call

agentVars == <<wall, rng, calls, bg, delivered>>

NoCall ==
  [pc |-> "idle", service |-> "", start |-> 0, finish |-> 0,
   fallback |-> FALSE, raised |-> "none", report |-> <<>>]

NoBg == [pc |-> "none", outcome |-> "none", raised |-> "none"]

\* no call has been made; candidates are those the generator may be
InitAgent(candidates) ==
  /\ wall = 0
  /\ rng \in candidates
  /\ calls = [c \in Calls |-> NoCall]
  /\ bg = [c \in Calls |-> NoBg]
  /\ delivered = [c \in Calls |-> <<>>]

DefaultCandidate == 0

\* ------------------------------------------------------------------
\* Network test engine (backend/agent/network_tester.py)
\*
\*  - a text is a sequence of words, a keyword a sequence of words too:
\*    `k in text` is the keyword's words standing next to each other in
\*    the text;
\*  - the type of a pattern is the sequence of the words between its
\*    underscores;
\*  - uuid4().hex[:6] is the counter next_sid; the id of a strategy is the
\*    number drawn for it;
\*  - what a runner finds over HTTP is an input: the status of its result.
\* ------------------------------------------------------------------
MaxKnownInsights == 2      \* insights the store holds for the engine
MaxKnownPatterns == 1      \* patterns the store holds for the engine
MaxSid == 6                \* strategy ids ever drawn

LATENCY_KEYWORDS ==
  { <<"latency">>, <<"p99">>, <<"slow">>, <<"timeout">>, <<"response", "time">> }

LOAD_KEYWORDS ==
  { <<"overload">>, <<"cpu">>, <<"spike">>, <<"scale">>, <<"capacity">>,
    <<"traffic">> }

HIGH_CONFIDENCE == 70      \* pat.get("confidence", 0) > 0.7, in hundredths

\* str.lower() on a word
LowerWord(w) ==
  CASE w = "Latency" -> "latency"
    [] w = "CPU" -> "cpu"
    [] w = "High" -> "high"
    [] OTHER -> w

LowerText(text) == [i \in 1..Len(text) |-> LowerWord(text[i])]

\* k in text
Contains(text, k) ==
  \E i \in 1..(Len(text) - Len(k) + 1) : SubSeq(text, i, i + Len(k) - 1) = k

\* any(k in text for k in keywords)
ContainsAny(text, keywords) == \E k \in keywords : Contains(text, k)

\* the words of a pattern type
TypeWords(pat_type) ==
  CASE pat_type = "cascade_risk" -> <<"cascade", "risk">>
    [] pat_type = "dependency_bottleneck" -> <<"dependency", "bottleneck">>
    [] pat_type = "latency_spike" -> <<"latency", "spike">>
    [] OTHER -> <<pat_type>>

\* an entry of get_all_insights()
KnownInsight(id, service, title, insight, severity) ==
  [id |-> id, service |-> service, title |-> title, insight |-> insight,
   severity |-> severity]

\* an entry of get_all_patterns(): a pattern of a service carries the
\* key "service", a global one the key "scope"
KnownPattern(id, service, scope, type, confidence) ==
  [id |-> id, service |-> service, scope |-> scope, type |-> type,
   confidence |-> confidence]

\* pat.get("service", pat.get("scope", "unknown"))
PatternService(pat) ==
  IF pat.service # "" THEN pat.service
  ELSE IF pat.scope # "" THEN pat.scope
  ELSE "unknown"

\* TestStrategy(...)
Strategy(id, type, target, derived_from, severity) ==
  [id |-> id, type |-> type, target |-> target, derived_from |-> derived_from,
   severity |-> severity]

\* the first part of generate_strategies: the health sweep
SweepOnly(sid) ==
  [strategies |-> << Strategy(sid, "health_sweep", "all", "baseline", "medium") >>,
   seen |-> {}, sid |-> sid + 1]

\* one turn of `for ins in insights`
AfterInsight(acc, ins) ==
  LET svc == ins.service
      insight_text == LowerText(ins.insight \o ins.title)
      probe == /\ ContainsAny(insight_text, LATENCY_KEYWORDS)
               /\ svc \notin acc.seen
      a1 == IF probe
            THEN [strategies |-> Append(acc.strategies,
                     Strategy(acc.sid, "latency_probe", svc, ins.id, ins.severity)),
                  seen |-> acc.seen \cup {svc}, sid |-> acc.sid + 1]
            ELSE acc
      burst == /\ ContainsAny(insight_text, LOAD_KEYWORDS)
               /\ ("load-" \o svc) \notin a1.seen
  IN IF burst
     THEN [strategies |-> Append(a1.strategies,
              Strategy(a1.sid, "load_burst", svc, ins.id, ins.severity)),
           seen |-> a1.seen \cup {"load-" \o svc}, sid |-> a1.sid + 1]
     ELSE a1

\* one turn of `for pat in patterns`
AfterPattern(acc, pat) ==
  LET svc == PatternService(pat)
      words == TypeWords(pat.type)
      severity == IF pat.confidence > HIGH_CONFIDENCE THEN "high" ELSE "medium"
      sim == /\ Contains(words, <<"cascade">>)
             /\ ("cascade-" \o svc) \notin acc.seen
      a1 == IF sim
            THEN [strategies |-> Append(acc.strategies,
                     Strategy(acc.sid, "cascade_sim", svc, pat.id, severity)),
                  seen |-> acc.seen \cup {"cascade-" \o svc}, sid |-> acc.sid + 1]
            ELSE acc
      chain == Contains(words, <<"dependency">>) \/ Contains(words, <<"bottleneck">>)
  IN IF chain
     THEN [a1 EXCEPT !.strategies = Append(@,
              Strategy(a1.sid, "dependency_chain", svc, pat.id, severity)),
                     !.sid = a1.sid + 1]
     ELSE a1

\* generate_strategies(insights, patterns), the ids drawn from sid on:
\* the strategies and the next id to draw
GenerateStrategies(insights, patterns, sid) ==
  LET I[k \in 0..Len(insights)] ==
        IF k = 0 THEN SweepOnly(sid)
        ELSE LET prev == I[k - 1] IN AfterInsight(prev, insights[k])
      P[k \in 0..Len(patterns)] ==
        IF k = 0 THEN I[Len(insights)]
        ELSE LET prev == P[k - 1] IN AfterPattern(prev, patterns[k])
      out == P[Len(patterns)]
  IN [strategies |-> out.strategies, sid |-> out.sid]

RunnerStatuses == {"passed", "failed", "partial"}

\* the overall status run_network_tests computes from the statuses of
\* the results
Overall(statuses) ==
  LET passed_strats == Cardinality({ i \in 1..Len(statuses) : statuses[i] = "passed" })
      failed_strats == Cardinality({ i \in 1..Len(statuses) : statuses[i] = "failed" })
  IN IF failed_strats = 0 THEN "passed"
     ELSE IF passed_strats = 0 THEN "failed"
     ELSE "partial"

\* strategy_ids of the request: none, or a set of ids
NoIds == {-1}

\* [s for s in strategies if s.id in strategy_ids], applied when
\* strategy_ids is given and not empty
Selected(strategies, strategy_ids) ==
  IF strategy_ids # NoIds /\ strategy_ids # {}
  THEN SelectSeq(strategies, LAMBDA s : s.id \in strategy_ids)
  ELSE strategies

\* run_network_tests(strategy_ids) on the insights and patterns of the
\* store; found[i] is what the runner of the i-th strategy run finds
RunNetworkTests(insights, patterns, strategy_ids, sid, found) ==
  LET g == GenerateStrategies(insights, patterns, sid)
      strategies == Selected(g.strategies, strategy_ids)
      statuses == [i \in 1..Len(strategies) |-> found[i]]
  IN [ran |-> [i \in 1..Len(strategies) |-> strategies[i].id],
      statuses |-> statuses,
      strategies_run |-> Len(strategies),
      overall_status |-> Overall(statuses),
      sid |-> g.sid]

\* the insights and patterns the store is given for the engine
InsightPool ==
  { KnownInsight(1, "x", <<"High", "Latency">>, <<>>, "high"),
    KnownInsight(2, "x", <<"CPU", "spike">>, <<>>, "medium"),
    KnownInsight(3, "load-x", <<"note">>, <<"slow", "response", "time">>, "low"),
    KnownInsight(4, "cascade-y", <<"Latency", "timeout">>, <<>>, "high") }

PatternPool ==
  { KnownPattern(7, "y", "", "cascade_risk", 80),
    KnownPattern(8, "y", "", "dependency_bottleneck", 50),
    KnownPattern(9, "", "global", "latency_spike", 50) }

testerVars == <<known, listing, listed_from, next_sid, last_report>>

NoReport ==
  [requested |-> NoIds, from_listing |-> FALSE, unchanged |-> FALSE, ran |-> <<>>,
   statuses |-> <<>>, strategies_run |-> 0, overall_status |-> "not_run"]

NothingKnown == [insights |-> <<>>, patterns |-> <<>>]

\* an empty store, nothing listed, _last_report = None
InitTester ==
  /\ known = NothingKnown
  /\ listing = <<>>
  /\ listed_from = NothingKnown
  /\ next_sid = 1
  /\ last_report = NoReport

\* ------------------------------------------------------------------
\* Remediation and validation tools (backend/agent/tools/aws_tools.py,
\* backend/agent/tools/testsprite.py)
\*
\*  - pass rates are in tenths of a percent and latencies in tenths of a
\*    millisecond, so that the factors 0.85, 1.08, 0.95 and 1.20 are
\*    exact; the rounding of floating-point products is not modelled;
\*  - DEMO_MODE is read from the environment when the modules load: every
\*    call is made under both settings;
\*  - an action the provider rejects is a boto3 call that raises.
\* ------------------------------------------------------------------
MaxActions == 2            \* remediation calls ever made

RemediationTools ==
  { [tool |-> "scale_ecs_service", action_type |-> "scale_ecs"],
    [tool |-> "trigger_codedeploy_rollback", action_type |-> "rollback_deploy"],
    [tool |-> "update_ssm_parameter", action_type |-> "update_ssm_param"] }

\* _record_action(action_type, service, params, result): the log with the
\* entry appended; result.get("status", "success")
RecordAction(log, action_type, service, result, aid) ==
  Append(log, [id |-> aid, action_type |-> action_type, service |-> service,
               status |-> IF "status" \in DOMAIN result THEN result.status
                          ELSE "success",
               triggered_by |-> "agent"])

\* scale_ecs_service, trigger_codedeploy_rollback and update_ssm_parameter:
\* in demo mode the result is made up, otherwise the provider is called
\* and either answers or raises; then the action is recorded
RemediateFn(log, action_type, service, demo, accepted, aid) ==
  IF demo \/ accepted
  THEN [log |-> RecordAction(log, action_type, service,
                             [status |-> "success"], aid),
        raised |-> "none"]
  ELSE [log |-> log, raised |-> "ClientError"]

\* round(passed / total * 100, 1), in tenths of a percent
PassRate(passed, total) == (passed * 2000 + total) \div (2 * total)

\* a phase of the stability test
Phase(pass_rate, p99) == [pass_rate |-> pass_rate, p99_latency_ms |-> p99]

DEMO_PRE_P99 == 3200       \* pre_p99 = 320.0
DEMO_PRE_PASS == 49
DEMO_TOTAL == 50
DEMO_UP_FACTOR == 85       \* post_p99 = pre_p99 * 0.85
DEMO_DOWN_FACTOR == 108    \* post_p99 = pre_p99 * 1.08
DEMO_UP_PASS == 50
DEMO_DOWN_PASS == 48
DEMO_LATENCY_BAND == 20    \* abs(latency_delta) < pre_p99 * 0.20
DEMO_PASS_FLOOR == 94      \* post_pass / post_total >= 0.94
RATE_FLOOR == 95           \* post_rate >= pre_rate * 0.95
P99_CEILING == 120         \* post_p99 <= pre_p99 * 1.20

Abs(n) == IF n < 0 THEN -n ELSE n

\* validate_scale_stability in demo mode
DemoStability(scale_direction) ==
  LET pre_p99 == DEMO_PRE_P99
      post_p99 == IF scale_direction = "up"
                  THEN (pre_p99 * DEMO_UP_FACTOR) \div 100
                  ELSE (pre_p99 * DEMO_DOWN_FACTOR) \div 100
      post_pass == IF scale_direction = "up" THEN DEMO_UP_PASS ELSE DEMO_DOWN_PASS
      latency_delta == post_p99 - pre_p99
      stable == /\ Abs(latency_delta) * 100 < pre_p99 * DEMO_LATENCY_BAND
                /\ post_pass * 100 >= DEMO_PASS_FLOOR * DEMO_TOTAL
  IN [scale_direction |-> scale_direction,
      phase_1_pre_scale |-> Phase(PassRate(DEMO_PRE_PASS, DEMO_TOTAL), pre_p99),
      phase_2_post_scale |-> Phase(PassRate(post_pass, DEMO_TOTAL), post_p99),
      network_stable |-> stable]

\* mutant: the pass rate has to exceed 95% of the rate before
M_ProdStable(pre, post) ==
  /\ post.pass_rate * 100 > pre.pass_rate * RATE_FLOOR
  /\ post.p99_latency_ms * 100 <= pre.p99_latency_ms * P99_CEILING

\* stable of the production path
ProdStable(pre, post) ==
  /\ post.pass_rate * 100 >= pre.pass_rate * RATE_FLOOR
  /\ post.p99_latency_ms * 100 <= pre.p99_latency_ms * P99_CEILING

\* validate_scale_stability in production: pre and post are what the two
\* requests return, a missing key read as 0
ProdStability(scale_direction, pre, post) ==
  [scale_direction |-> scale_direction,
   phase_1_pre_scale |-> pre, phase_2_post_scale |-> post,
   network_stable |-> ProdStable(pre, post)]

\* what the validation service measures
MeasuredRates == {0, 949, 950, 1000}
MeasuredP99s == {0, 1000, 1200, 1201}
Measurements == { Phase(r, p) : r \in MeasuredRates, p \in MeasuredP99s }

ScaleDirections == {"up", "down", "sideways"}

toolVars == <<action_log, next_aid, last_remedy, stability>>

NoRemedy ==
  [action_type |-> "", demo |-> FALSE, rejected |-> FALSE, raised |-> "none",
   before |-> <<>>]

NoStability ==
  [scale_direction |-> "", phase_1_pre_scale |-> Phase(0, 0),
   phase_2_post_scale |-> Phase(0, 0), network_stable |-> FALSE]

\* _action_log = [], no tool called
InitTools ==
  /\ action_log = <<>>
  /\ next_aid = 1
  /\ last_remedy = NoRemedy
  /\ stability = [demo |-> FALSE, called |-> FALSE, result |-> NoStability]

\* the variables no handler of the coordinator touches
offClusterVars == <<storeVars, diskVars, callVars, logVars, agentVars, testerVars, toolVars>>

\* ------------------------------------------------------------------
\* The coordinator after construction (__init__)
\* ------------------------------------------------------------------
EmptyCoord ==
  [replicas |-> <<>>, work_queue |-> <<>>, completed_work |-> <<>>,
   scale_events |-> <<>>, last_scale_time |-> 0, all_services |-> <<>>,
   validation_results |-> <<>>, pending_validation |-> NoValidation]

InitCoord == SpawnReplica(EmptyCoord, 1, PRIMARY_NAME, BootTime)

Install(c) ==
  /\ replicas' = c.replicas
  /\ work_queue' = c.work_queue
  /\ completed_work' = c.completed_work
  /\ scale_events' = c.scale_events
  /\ last_scale_time' = c.last_scale_time
  /\ all_services' = c.all_services
  /\ validation_results' = c.validation_results
  /\ pending_validation' = c.pending_validation

\* no mape_k_tick call is in progress
NoTick ==
  [pc |-> "idle", c0 |-> EmptyCoord, running |-> <<>>, cpuHigh |-> FALSE,
   rid |-> NoRid]

\* the coordinator right after construction. The id counters stand for
\* uuid4: starting them at firstRid and firstWid leaves
\* MaxRid - firstRid + 1 replica ids and MaxWid - firstWid + 1 work ids
\* to draw
InitExceptAgent(firstRid, firstWid) ==
  /\ replicas = InitCoord.replicas
  /\ work_queue = InitCoord.work_queue
  /\ completed_work = InitCoord.completed_work
  /\ scale_events = InitCoord.scale_events
  /\ last_scale_time = InitCoord.last_scale_time
  /\ all_services = InitCoord.all_services
  /\ validation_results = InitCoord.validation_results
  /\ pending_validation = InitCoord.pending_validation
  /\ inflight = EmptyBag
  /\ next_rid = firstRid
  /\ next_wid = firstWid
  /\ now = BootTime
  /\ tick = NoTick
  /\ InitStore
  /\ InitDisk
  /\ InitCalls
  /\ InitLog
  /\ InitTester
  /\ InitTools

\* the generator is the default candidate
InitWith(firstRid, firstWid) ==
  /\ InitExceptAgent(firstRid, firstWid)
  /\ InitAgent({DefaultCandidate})

\* every handler; two replica ids and two work ids left to draw
Init == InitWith(MaxRid - 1, MaxWid - 1)

\* growth of the pool to its cap: every replica id and one work id left
InitPool == InitWith(2, MaxWid)

\* load scenarios: every work id and every replica id left
InitLoad == InitWith(2, 1)

\* ------------------------------------------------------------------
\* Handlers
\* ------------------------------------------------------------------
\* mutant: other callbacks run while mape_k_tick is on the stack, as they
\* would if the tick awaited
M_LoopFree == TRUE

\* the event loop is free to run a handler or a resumed coroutine:
\* mape_k_tick is a plain def called without await, so from its first
\* line to its return the loop runs nothing else
LoopFree == tick.pc = "idle"

coordVars ==
  <<replicas, work_queue, completed_work, scale_events, last_scale_time,
    all_services, validation_results, pending_validation>>

\* POST /api/cluster/tick: one tick, then run_pending_validation
TickRoute ==
  \E cpuHigh \in CpuOutcomes(Coord) :
    LET res == MapeKTick(Coord, next_rid, cpuHigh, now)
        val == StartValidation(res.c)
    IN /\ LoopFree
       /\ res.action.kind = "spawned" => next_rid <= MaxRid
       /\ Install(val.c)
       /\ inflight' = InflightAfter(val.started)
       /\ next_rid' = IF res.action.kind = "spawned" THEN next_rid + 1 ELSE next_rid
       /\ UNCHANGED <<offClusterVars, tick, next_wid, now>>

\* POST /api/cluster/enqueue
EnqueueRoute ==
  \E inp \in EnqueueInputs :
    /\ LoopFree
    /\ next_wid <= MaxWid
    /\ Install(EnqueueFn(Coord, next_wid, inp.service_name, inp.task_type,
                         inp.priority))
    /\ next_wid' = next_wid + 1
    /\ UNCHANGED <<offClusterVars, tick, inflight, next_rid, now>>

\* complete_work(work_id, success); POST /api/cluster/complete/{work_id}
\* calls it with success=True and answers 200 whatever happened
CompleteWork ==
  \E work_id \in 1..MaxWid, success \in BOOLEAN :
    /\ LoopFree
    /\ Install(CompleteWorkFn(Coord, work_id, success))
    /\ UNCHANGED <<offClusterVars, tick, inflight, next_rid, next_wid, now>>

\* set_services(services)
SetServices ==
  \E services \in ServiceLists :
    /\ LoopFree
    /\ Install(SetServicesFn(Coord, services))
    /\ UNCHANGED <<offClusterVars, tick, inflight, next_rid, next_wid, now>>

\* the enqueue loop of simulate_load: item i (0-based) goes to
\* services[i % len(services)] with priority i
SimEnqueue(c, wid, count) ==
  LET services == IF Len(c.all_services) > 0 THEN c.all_services
                  ELSE DefaultServices
      F[i \in 0..count] ==
        IF i = 0 THEN c
        ELSE EnqueueFn(F[i - 1], wid + i - 1,
                       services[((i - 1) % Len(services)) + 1], "analyze", i - 1)
  IN F[count]

\* one pass of simulate_load's tick loop from the partial run p:
\* _last_scale_time is zeroed, a tick runs, and the loop stops after a
\* tick whose action is "none"; one outcome per possible avg_cpu reading
SimStep(p, t) ==
  LET c0 == [p.c EXCEPT !.last_scale_time = 0]
  IN { LET res == MapeKTick(c0, p.rid, cpuHigh, t)
       IN [c |-> res.c,
           rid |-> IF res.action.kind = "spawned" THEN p.rid + 1 ELSE p.rid,
           actions |-> Append(p.actions, res.action),
           stop |-> res.action.kind = "none"] :
       cpuHigh \in CpuOutcomes(c0) }

\* mutant: the tick loop runs its body once before it tests the count
M_SimTicks(c, rid, count, t) ==
  LET F[n \in 0..SIM_MAX_TICKS] ==
        IF n = 0 THEN { [c |-> c, rid |-> rid, actions |-> <<>>, stop |-> FALSE] }
        ELSE LET prev == F[n - 1]
             IN IF n > Max2(count, 1) THEN prev
                ELSE UNION { IF p.stop THEN {p} ELSE SimStep(p, t) : p \in prev }
  IN F[SIM_MAX_TICKS]

\* the tick loop of simulate_load: at most min(count, 4) ticks; the set of
\* runs it can produce
SimTicks(c, rid, count, t) ==
  LET F[n \in 0..SIM_MAX_TICKS] ==
        IF n = 0 THEN { [c |-> c, rid |-> rid, actions |-> <<>>, stop |-> FALSE] }
        ELSE LET prev == F[n - 1]
             IN IF n > count THEN prev
                ELSE UNION { IF p.stop THEN {p} ELSE SimStep(p, t) : p \in prev }
  IN F[SIM_MAX_TICKS]

\* POST /api/cluster/simulate-load
SimulateLoad ==
  \E count \in 0..MaxSimCount :
    /\ LoopFree
    /\ next_wid + count - 1 <= MaxWid
    /\ \E res \in SimTicks(SimEnqueue(Coord, next_wid, count), next_rid,
                           count, now) :
         LET val == StartValidation(res.c)
         IN /\ res.rid - 1 <= MaxRid
            /\ Install(val.c)
            /\ inflight' = InflightAfter(val.started)
            /\ next_rid' = res.rid
            /\ next_wid' = next_wid + count
            /\ UNCHANGED <<offClusterVars, tick, now>>

\* the key manual_scale looks up for its victim: coord.replicas[-1]
MANUAL_VICTIM_KEY == -1

\* mutant: the upper limit of manual scale-up off by one
M_ManualScaleCode(reps, direction) ==
  IF direction = "up"
  THEN IF Len(reps) > MANUAL_MAX_REPLICAS THEN 400 ELSE 200
  ELSE IF direction = "down"
  THEN IF Len(reps) <= MANUAL_MIN_REPLICAS THEN 400
       ELSE IF ~HasReplica(reps, MANUAL_VICTIM_KEY) THEN 500
       ELSE 200
  ELSE 400

\* the HTTP status POST /api/cluster/scale answers with
ManualScaleCode(reps, direction) ==
  IF direction = "up"
  THEN IF Len(reps) >= MANUAL_MAX_REPLICAS THEN 400 ELSE 200
  ELSE IF direction = "down"
  THEN IF Len(reps) <= MANUAL_MIN_REPLICAS THEN 400
       ELSE IF ~HasReplica(reps, MANUAL_VICTIM_KEY) THEN 500
       ELSE 200
  ELSE 400

\* POST /api/cluster/scale, direction = "up"
ManualScaleUp ==
  IF ~LoopFree \/ ManualScaleCode(replicas, "up") # 200
  THEN UNCHANGED vars
  ELSE
    LET c0 == [Coord EXCEPT !.last_scale_time = 0]
        c1 == SpawnReplica(c0, next_rid, next_rid, now)
        ev == [event |-> "spawn", replica_id |-> NoRid, name |-> next_rid,
               timestamp |-> now, reason |-> "manual",
               total_replicas |-> Len(c1.replicas)]
        c2 == RebalancePartitions([c1 EXCEPT !.scale_events = Append(@, ev)])
        val == StartValidation(c2)
    IN /\ next_rid <= MaxRid
       /\ Install(val.c)
       /\ inflight' = InflightAfter(val.started)
       /\ next_rid' = next_rid + 1
       /\ UNCHANGED <<offClusterVars, tick, next_wid, now>>

\* POST /api/cluster/scale, direction = "down": the lookup of the key -1
\* in the dict raises KeyError when no replica has that id, and the
\* request ends with a 500 before anything is changed
ManualScaleDown ==
  IF ~LoopFree \/ ManualScaleCode(replicas, "down") # 200
  THEN UNCHANGED vars
  ELSE
    LET victim == replicas[IndexOfReplica(replicas, MANUAL_VICTIM_KEY)]
        c1 == KillReplica(Coord, victim.replica_id, now)
        ev == [event |-> "kill", replica_id |-> NoRid, name |-> victim.name,
               timestamp |-> now, reason |-> "manual",
               total_replicas |-> Len(c1.replicas)]
        c2 == RebalancePartitions([c1 EXCEPT !.scale_events = Append(@, ev)])
    IN /\ Install(c2)
       /\ UNCHANGED <<offClusterVars, tick, inflight, next_rid, next_wid, now>>

\* validate_network_after_scale returns in a suspended
\* run_pending_validation, which appends the result to the ring
ValidationDone ==
  \E v \in BagToSet(inflight) :
    /\ LoopFree
    /\ inflight' = inflight (-) SetToBag({v})
    /\ validation_results' = PushValidation(validation_results, v)
    /\ UNCHANGED <<offClusterVars, tick, replicas, work_queue, completed_work, scale_events,
                   last_scale_time, all_services, pending_validation,
                   next_rid, next_wid, now>>

\* the trigger_replica "api-manual" of POST /validate
API_MANUAL == -2

ManualValidation == [trigger_event |-> "manual", trigger_replica |-> API_MANUAL]

\* POST /api/cluster/validate up to its await; ValidationDone is its
\* second half (the append and the trim to the last 20)
TriggerValidation ==
  /\ LoopFree
  /\ CopiesIn(ManualValidation, inflight) < MaxManual
  /\ inflight' = inflight (+) SetToBag({ManualValidation})
  /\ UNCHANGED <<offClusterVars, tick, coordVars, next_rid, next_wid, now>>

\* mape_k_tick up to the end of MONITOR: the list `running` is taken and
\* the cpu loads are drawn
TickMonitor ==
  \E cpuHigh \in CpuOutcomes(Coord) :
    /\ LoopFree
    /\ tick' = [pc |-> "monitored", c0 |-> Coord,
                running |-> Running(replicas), cpuHigh |-> cpuHigh,
                rid |-> next_rid]
    /\ UNCHANGED <<offClusterVars, coordVars, inflight, next_rid, next_wid, now>>

\* ANALYZE, PLAN and EXECUTE of the tick in progress
TickExecute ==
  LET ex == Execute(Coord, next_rid, tick.cpuHigh, now)
  IN /\ tick.pc = "monitored"
     /\ ex.action.kind = "spawned" => next_rid <= MaxRid
     /\ Install(ex.c)
     /\ next_rid' = IF ex.action.kind = "spawned" THEN next_rid + 1 ELSE next_rid
     /\ tick' = [tick EXCEPT !.pc = "executed"]
     /\ UNCHANGED <<offClusterVars, inflight, next_wid, now>>

\* the dispatch loop of the tick in progress, its return to the route and
\* run_pending_validation up to its await
TickDispatch ==
  LET val == StartValidation(Dispatch(Coord, tick.running))
  IN /\ tick.pc = "executed"
     /\ Install(val.c)
     /\ inflight' = InflightAfter(val.started)
     /\ tick' = NoTick
     /\ UNCHANGED <<offClusterVars, next_rid, next_wid, now>>

\* time passes between requests
Advance ==
  \E d \in {SCALE_COOLDOWN_SECONDS, SCALE_COOLDOWN_SECONDS + 1} :
    /\ LoopFree
    /\ now + d <= MaxNow
    /\ now' = now + d
    /\ UNCHANGED <<offClusterVars, tick, coordVars, inflight, next_rid, next_wid>>

\* The requests of the HTTP surface and the coordinator's own operations.
\* ValidationDone is left to NextLoad: it touches only inflight and
\* validation_results, which no handler reads, so it commutes with every
\* step below
Next ==
  \/ TickRoute
  \/ EnqueueRoute
  \/ CompleteWork
  \/ SetServices
  \/ SimulateLoad
  \/ ManualScaleUp
  \/ ManualScaleDown
  \/ Advance

Spec == Init /\ [][Next]_vars

SpecPool == InitPool /\ [][Next]_vars

\* load scenarios with their validations: the queue is filled by
\* simulate-load only, nothing is completed and the service list stays
\* the one found at startup
NextLoad ==
  \/ TickRoute
  \/ SimulateLoad
  \/ ValidationDone
  \/ Advance

SpecLoad == InitLoad /\ [][NextLoad]_vars

\* a queue filled one request at a time: every work id and one replica id
\* left to draw
InitQueue == InitWith(MaxRid, 1)

\* nothing is completed here: the queue only grows and is handed out
NextQueue ==
  \/ TickRoute
  \/ EnqueueRoute
  \/ SetServices
  \/ Advance

SpecQueue == InitQueue /\ [][NextQueue]_vars

\* validations: one replica id and no work id left to draw
InitRing == InitWith(MaxRid, MaxWid + 1)

NextRing ==
  \/ TriggerValidation
  \/ ValidationDone
  \/ TickRoute
  \/ ManualScaleUp
  \/ SetServices
  \/ Advance

SpecRing == InitRing /\ [][NextRing]_vars

\* the tick taken one phase at a time among the other requests: one
\* replica id and two work ids left to draw
InitSteps == InitWith(MaxRid, MaxWid - 1)

NextSteps ==
  \/ TickMonitor
  \/ TickExecute
  \/ TickDispatch
  \/ EnqueueRoute
  \/ CompleteWork
  \/ SetServices
  \/ SimulateLoad
  \/ ValidationDone
  \/ Advance

SpecSteps == InitSteps /\ [][NextSteps]_vars

\* ------------------------------------------------------------------
\* Store operations of the callers
\* ------------------------------------------------------------------
clusterVars == <<coordVars, inflight, next_rid, next_wid, now, tick>>

\* the variables no operation of the store touches
offStoreVars == <<clusterVars, diskVars, callVars, logVars, agentVars, testerVars, toolVars>>

\* a caller enters a store operation and gets through load_memory(): the
\* file is read under _lock, the lock is released on return. base is the
\* file as it was when the first of the callers now inside entered
BeginOp(t, op) ==
    /\ threads[t].pc = "idle"
    /\ next_uid <= MaxOps
    /\ threads' = [threads EXCEPT ![t] =
         [pc |-> "loaded", op |-> op, data |-> mem,
          base |-> IF \E u \in Threads : threads[u].pc # "idle"
                   THEN threads[CHOOSE u \in Threads : threads[u].pc # "idle"].base
                   ELSE mem,
          uid |-> next_uid, ts |-> NoTime]]
    /\ next_uid' = next_uid + 1
    /\ UNCHANGED <<offStoreVars, mem, mclock>>

StoreBegin == \E t \in Threads, op \in StoreOps : BeginOp(t, op)

\* add_pattern calls only
PatternBegin == \E t \in Threads, op \in PatternOps : BeginOp(t, op)

\* the caller changes its own copy and gets through save_memory(), which
\* replaces the file under _lock
StoreEnd ==
  \E t \in Threads :
    /\ threads[t].pc = "loaded"
    /\ mem' = Persisted(threads[t].data, threads[t].op, threads[t].uid, mclock)
    /\ threads' = [threads EXCEPT ![t].pc = "done", ![t].ts = mclock]
    /\ mclock' = mclock + 1
    /\ UNCHANGED <<offStoreVars, next_uid>>

\* the callers that have finished return
StoreReturn ==
  /\ \A t \in Threads : threads[t].pc # "loaded"
  /\ \E t \in Threads : threads[t].pc = "done"
  /\ threads' = [t \in Threads |-> IdleThread]
  /\ UNCHANGED <<offStoreVars, mem, next_uid, mclock>>

NextStore ==
  \/ StoreBegin
  \/ StoreEnd
  \/ StoreReturn

\* the store and its callers alone: the coordinator is left as built
InitStoreOnly == InitWith(MaxRid + 1, MaxWid + 1)

SpecStore == InitStoreOnly /\ [][NextStore]_vars

NextPatterns ==
  \/ PatternBegin
  \/ StoreEnd
  \/ StoreReturn

SpecPatterns == InitStoreOnly /\ [][NextPatterns]_vars

\* ------------------------------------------------------------------
\* A save step by step, with crashes and an unwritable path
\* ------------------------------------------------------------------
offDiskVars == <<clusterVars, threads, callVars, logVars, agentVars, testerVars, toolVars>>

\* a store operation runs up to its save_memory(data) call: it has
\* loaded the file, changed its copy, and now holds _lock
SaveStart ==
  \E op \in DiskOps :
    LET before == LoadMemory(disk)
        r == ApplyOp(before, op, next_uid, mclock)
    IN /\ saver.pc \in {"idle", "crashed"}
       /\ next_uid <= MaxOps
       /\ r.wrote
       /\ saver' = [pc |-> "opening", before |-> before,
                    data |-> AtomicWrite(r.data, mclock)]
       /\ next_uid' = next_uid + 1
       /\ mclock' = mclock + 1
       /\ UNCHANGED <<offDiskVars, disk, mem>>

\* with open(tmp, "w") as f
SaveOpen ==
  LET r == OpenForWrite(disk, TmpOf(MEMORY_FILE))
  IN /\ saver.pc = "opening"
     /\ disk' = r.disk
     /\ saver' = [saver EXCEPT !.pc = IF r.raised THEN "failed" ELSE "writing"]
     /\ UNCHANGED <<offDiskVars, mem, next_uid, mclock>>

\* json.dump writes its next piece; the file is closed after the last
SaveWrite ==
  LET tmp == TmpOf(MEMORY_FILE)
      d == WritePiece(disk, tmp, saver.data)
  IN /\ saver.pc = "writing"
     /\ disk' = d
     /\ saver' = [saver EXCEPT !.pc =
                    IF Len(d.files[tmp]) = Len(Serialize(saver.data))
                    THEN "written" ELSE "writing"]
     /\ UNCHANGED <<offDiskVars, mem, next_uid, mclock>>

\* tmp.replace(_MEMORY_FILE)
SaveReplace ==
  LET d == Replace(disk, TmpOf(MEMORY_FILE), MEMORY_FILE)
  IN /\ saver.pc = "written"
     /\ disk' = d
     /\ mem' = LoadMemory(d)
     /\ saver' = [saver EXCEPT !.pc = "saved"]
     /\ UNCHANGED <<offDiskVars, next_uid, mclock>>

\* save_memory returns or raises, _lock is released
SaveReturn ==
  /\ saver.pc \in {"saved", "failed"}
  /\ saver' = [saver EXCEPT !.pc = "idle"]
  /\ UNCHANGED <<offDiskVars, disk, mem, next_uid, mclock>>

\* the process dies inside the operation: before the open, between two
\* writes, before or after the rename. The files stay as they are
Crash ==
  /\ saver.pc \in {"opening", "writing", "written", "saved"}
  /\ saver' = [saver EXCEPT !.pc = "crashed"]
  /\ UNCHANGED <<offDiskVars, disk, mem, next_uid, mclock>>

\* the directory of the file becomes unwritable, or writable again
Chmod ==
  /\ saver.pc \in {"idle", "crashed"}
  /\ disk' = [disk EXCEPT !.writable = ~@]
  /\ UNCHANGED <<offDiskVars, saver, mem, next_uid, mclock>>

NextDisk ==
  \/ SaveStart
  \/ SaveOpen
  \/ SaveWrite
  \/ SaveReplace
  \/ SaveReturn
  \/ Crash
  \/ Chmod

SpecDisk == InitStoreOnly /\ [][NextDisk]_vars

\* ------------------------------------------------------------------
\* Store calls made one after the other
\* ------------------------------------------------------------------
offCallVars == <<clusterVars, threads, diskVars, logVars, agentVars, testerVars, toolVars>>

\* no other caller is inside the store
StoreFree ==
  /\ \A t \in Threads : threads[t].pc = "idle"
  /\ saver.pc = "idle"

\* record_analysis(session) from start to return. A session that brings
\* its own id is sent to the empty and to the full history
RecordAnalysisCall ==
  \E session \in SessionInputs :
    LET r == RecordAnalysisFn(mem, session, next_uid, mclock)
    IN /\ StoreFree
       /\ Len(recorded) < MaxSessions
       /\ session.session_id # NoId =>
            Len(mem.analysis_history) \in {0, HISTORY_RING}
       /\ mem' = AtomicWrite(r.data, mclock)
       /\ recorded' = Append(recorded, r.ret)
       /\ next_uid' = next_uid + 1
       /\ mclock' = mclock + 1
       /\ UNCHANGED <<offCallVars, resp>>

NextHistory == RecordAnalysisCall

SpecHistory == InitStoreOnly /\ [][NextHistory]_vars

\* add_insight(service, insight) from start to return, called as
\* store_insight and the hooks call it
StoreInsightCall ==
  \E c \in NewInsightCalls :
    LET r == AddInsightFn(mem, c.service, c.insight, next_uid, mclock)
    IN /\ StoreFree
       /\ next_uid <= MaxInsights
       /\ mclock <= MaxStamp
       /\ mem' = AtomicWrite(r.data, mclock)
       /\ next_uid' = next_uid + 1
       /\ mclock' = mclock + 1
       /\ UNCHANGED <<offCallVars, callVars>>

\* PATCH /api/insights/{insight_id} with body {status}
PatchInsight ==
  \E id \in PatchIds, status \in PatchStatuses :
    LET r == PatchInsightFn(mem, id, status, mclock)
    IN /\ StoreFree
       /\ mclock <= MaxStamp
       /\ mem' = r.data
       /\ resp' = [insight_id |-> id, status |-> status, code |-> r.code,
                   changed |-> r.data # mem]
       /\ mclock' = IF r.code = 200 THEN mclock + 1 ELSE mclock
       /\ UNCHANGED <<offCallVars, recorded, next_uid>>

NextInsights ==
  \/ StoreInsightCall
  \/ PatchInsight

SpecInsights == InitStoreOnly /\ [][NextInsights]_vars

\* ------------------------------------------------------------------
\* log_activity, statement by statement, in each of its threads
\* ------------------------------------------------------------------
offLogVars == <<clusterVars, storeVars, diskVars, callVars, agentVars, testerVars, toolVars>>

\* mutant: the threads enter without the lock
M_LockFreeFor(t) == TRUE

\* _lock can be taken
LockFreeFor(t) == act_lock = NoThread

\* with _lock:
LogAcquire ==
  \E t \in Loggers :
    /\ loggers[t].pc = "idle"
    /\ Len(issued) + Cardinality({ u \in Loggers : loggers[u].pc # "idle" })
         < MaxActivity
    /\ LockFreeFor(t)
    /\ act_lock' = t
    /\ loggers' = [loggers EXCEPT ![t].pc = "locked"]
    /\ UNCHANGED <<offLogVars, act_log, act_counter, issued>>

\* _counter += 1, the read
LogLoad ==
  \E t \in Loggers :
    /\ loggers[t].pc = "locked"
    /\ loggers' = [loggers EXCEPT ![t] = [pc |-> "loaded", reg |-> act_counter]]
    /\ UNCHANGED <<offLogVars, act_log, act_counter, act_lock, issued>>

\* _counter += 1, the write
LogStore ==
  \E t \in Loggers :
    /\ loggers[t].pc = "loaded"
    /\ act_counter' = loggers[t].reg + 1
    /\ loggers' = [loggers EXCEPT ![t].pc = "counted"]
    /\ UNCHANGED <<offLogVars, act_log, act_lock, issued>>

\* entry = {"id": _counter, ...}; _log.append(entry)
LogAppend ==
  \E t \in Loggers :
    /\ loggers[t].pc = "counted"
    /\ act_log' = DequeAppend(act_log, [id |-> act_counter,
                                        event_type |-> "tool_call"])
    /\ loggers' = [loggers EXCEPT ![t].pc = "appended"]
    /\ UNCHANGED <<offLogVars, act_counter, act_lock, issued>>

\* return _counter; the lock is released
LogReturn ==
  \E t \in Loggers :
    /\ loggers[t].pc = "appended"
    /\ issued' = Append(issued, act_counter)
    /\ act_lock' = NoThread
    /\ loggers' = [loggers EXCEPT ![t] = IdleLogger]
    /\ UNCHANGED <<offLogVars, act_log, act_counter>>

NextLog ==
  \/ LogAcquire
  \/ LogLoad
  \/ LogStore
  \/ LogAppend
  \/ LogReturn

SpecLog == InitStoreOnly /\ [][NextLog]_vars

\* ------------------------------------------------------------------
\* Agent: analyze_service calls and their background tasks
\* ------------------------------------------------------------------
offAgentVars == <<clusterVars, threads, diskVars, callVars, logVars, testerVars, toolVars>>

\* the store as a call finds it
StoreNow == [data |-> mem, uid |-> next_uid, ts |-> mclock]

\* analyze_service(service_name) up to the awaited run_in_executor: the
\* call is suspended while the LLM works
AnalyzeStart(c) ==
  \E service_name \in Services :
    /\ calls[c].pc = "idle"
    /\ \A b \in Calls : b < c => calls[b].pc # "idle"
    /\ calls' = [calls EXCEPT ![c] =
                   [NoCall EXCEPT !.pc = "awaiting", !.service = service_name,
                                  !.start = wall]]
    /\ UNCHANGED <<offAgentVars, storeVars, wall, rng, bg, delivered>>

\* analyze_service from the end of the LLM call to its return: the try
\* block ends, the fallback runs if it raised, the session, the baseline
\* and the demo insights are stored, the background task is created
AnalyzeFinish(c) ==
  \E result \in LlmResults, n \in DemoInsightCounts :
    LET r == AnalyzeFn(StoreNow, calls[c].service, c, result, wall, rng, n)
    IN /\ calls[c].pc = "awaiting"
       /\ StoreFree
       /\ calls' = [calls EXCEPT ![c] =
                      [@ EXCEPT !.pc = "returned", !.finish = wall,
                                !.fallback = LlmFailed(result),
                                !.raised = r.raised, !.report = r.report]]
       /\ delivered' = [delivered EXCEPT ![c] = r.report]
       /\ bg' = [bg EXCEPT ![c] =
                   IF r.raised = "none" THEN [NoBg EXCEPT !.pc = "pending"] ELSE @]
       /\ mem' = r.st.data
       /\ next_uid' = r.st.uid
       /\ mclock' = r.st.ts
       /\ UNCHANGED <<offAgentVars, wall, rng>>

\* _fire_minimax_background(service_name, main_report) from the moment
\* the event loop runs the task to its end
BgFinish(c) ==
  \E run \in BgRuns :
    LET outcome == BgOutcome(run)
        st == BgStore(StoreNow, calls[c].service, outcome)
    IN /\ bg[c].pc = "pending"
       /\ StoreFree
       /\ bg' = [bg EXCEPT ![c] =
                   [pc |-> IF BgRaised(outcome) = "none" THEN "finished" ELSE "crashed",
                    outcome |-> outcome, raised |-> BgRaised(outcome)]]
       /\ calls' = [calls EXCEPT ![c] = ForegroundAfter(@, outcome)]
       /\ mem' = st.data
       /\ next_uid' = st.uid
       /\ mclock' = st.ts
       /\ UNCHANGED <<offAgentVars, wall, rng, delivered>>

\* the wall clock moves on
WallTick ==
  /\ wall < MaxWall
  /\ wall' = wall + 1
  /\ UNCHANGED <<offAgentVars, storeVars, rng, calls, bg, delivered>>

\* the fallback over the hours, under every candidate generator
InitDemo == InitExceptAgent(MaxRid + 1, MaxWid + 1) /\ InitAgent(RngCandidates)

NextDemo ==
  \/ \E c \in Calls : AnalyzeStart(c)
  \/ \E c \in Calls : AnalyzeFinish(c)
  \/ WallTick

SpecDemo == InitDemo /\ [][NextDemo]_vars

\* calls and their background tasks
NextAgent ==
  \/ \E c \in Calls : AnalyzeStart(c)
  \/ \E c \in Calls : AnalyzeFinish(c)
  \/ \E c \in Calls : BgFinish(c)

SpecAgent == InitStoreOnly /\ [][NextAgent]_vars

\* ------------------------------------------------------------------
\* Network test engine: the store fills, strategies are listed and run
\* ------------------------------------------------------------------
offTesterVars == <<clusterVars, storeVars, diskVars, callVars, logVars, agentVars, toolVars>>

\* an insight reaches the store
LearnInsight ==
  \E ins \in InsightPool :
    /\ Len(known.insights) < MaxKnownInsights
    /\ known' = [known EXCEPT !.insights = Append(@, ins)]
    /\ UNCHANGED <<offTesterVars, listing, listed_from, next_sid, last_report>>

\* a pattern reaches the store
LearnPattern ==
  \E pat \in PatternPool :
    /\ Len(known.patterns) < MaxKnownPatterns
    /\ known' = [known EXCEPT !.patterns = Append(@, pat)]
    /\ UNCHANGED <<offTesterVars, listing, listed_from, next_sid, last_report>>

\* GET /api/network-test/strategies
ListStrategies ==
  LET g == GenerateStrategies(known.insights, known.patterns, next_sid)
  IN /\ g.sid <= MaxSid
     /\ listing' = g.strategies
     /\ listed_from' = known
     /\ next_sid' = g.sid
     /\ UNCHANGED <<offTesterVars, known, last_report>>

\* the ids of the strategies last listed
ListedIds == { listing[i].id : i \in 1..Len(listing) }

\* the strategy_ids a request carries: none, an empty list, one id of
\* the last listing or all of them
RequestIds == {NoIds, {}, ListedIds} \cup { {id} : id \in ListedIds }

\* POST /api/network-test/run with body {strategy_ids}
RunTests ==
  \E strategy_ids \in RequestIds :
    \E found \in [1..Len(GenerateStrategies(known.insights, known.patterns,
                                          next_sid).strategies) -> RunnerStatuses] :
      LET r == RunNetworkTests(known.insights, known.patterns, strategy_ids,
                               next_sid, found)
      IN /\ r.sid <= MaxSid
         /\ last_report' = [requested |-> strategy_ids,
                            from_listing |-> strategy_ids \subseteq ListedIds,
                            unchanged |-> listed_from = known, ran |-> r.ran,
                            statuses |-> r.statuses,
                            strategies_run |-> r.strategies_run,
                            overall_status |-> r.overall_status]
         /\ next_sid' = r.sid
         /\ UNCHANGED <<offTesterVars, known, listing, listed_from>>

\* the store fills and the strategies are listed
NextStrategies ==
  \/ LearnInsight
  \/ LearnPattern
  \/ ListStrategies

SpecStrategies == InitStoreOnly /\ [][NextStrategies]_vars

\* strategies are listed and run on a store that holds patterns only
NextTests ==
  \/ LearnPattern
  \/ ListStrategies
  \/ RunTests

SpecTests == InitStoreOnly /\ [][NextTests]_vars

\* ------------------------------------------------------------------
\* Tools: remediation calls and stability validations
\* ------------------------------------------------------------------
offToolVars ==
  <<clusterVars, storeVars, diskVars, callVars, logVars, agentVars, testerVars>>

\* a call of one of the three remediation tools
Remediate ==
  \E t \in RemediationTools, service \in Services, demo \in BOOLEAN,
     accepted \in BOOLEAN :
    LET r == RemediateFn(action_log, t.action_type, service, demo, accepted,
                         next_aid)
    IN /\ next_aid <= MaxActions
       /\ action_log' = r.log
       /\ next_aid' = next_aid + 1
       /\ last_remedy' = [action_type |-> t.action_type, demo |-> demo,
                          rejected |-> ~demo /\ ~accepted, raised |-> r.raised,
                          before |-> action_log]
       /\ UNCHANGED <<offToolVars, stability>>

\* DELETE /api/actions/
ClearActions ==
  /\ action_log # <<>>
  /\ action_log' = <<>>
  /\ last_remedy' = NoRemedy
  /\ UNCHANGED <<offToolVars, next_aid, stability>>

\* validate_scale_stability in demo mode
ValidateStabilityDemo ==
  \E direction \in ScaleDirections :
    /\ stability' = [demo |-> TRUE, called |-> TRUE,
                     result |-> DemoStability(direction)]
    /\ UNCHANGED <<offToolVars, action_log, next_aid, last_remedy>>

\* validate_scale_stability in production
ValidateStabilityProd ==
  \E direction \in ScaleDirections, pre \in Measurements, post \in Measurements :
    /\ stability' = [demo |-> FALSE, called |-> TRUE,
                     result |-> ProdStability(direction, pre, post)]
    /\ UNCHANGED <<offToolVars, action_log, next_aid, last_remedy>>

NextActions ==
  \/ Remediate
  \/ ClearActions

SpecActions == InitStoreOnly /\ [][NextActions]_vars

NextStability ==
  \/ ValidateStabilityDemo
  \/ ValidateStabilityProd

SpecStability == InitStoreOnly /\ [][NextStability]_vars

\* ------------------------------------------------------------------
\* Properties
\* ------------------------------------------------------------------
RidSet(reps) == { reps[i].replica_id : i \in 1..Len(reps) }

\* what one mape_k_tick call can return when run on the coordinator c now
TickResultsOf(c) ==
  { MapeKTick(c, next_rid, cpuHigh, now) : cpuHigh \in CpuOutcomes(c) }

\* the coordinator as simulate_load hands it to a tick
Bypassed == [Coord EXCEPT !.last_scale_time = 0]

\* C1: the number of replicas in the table is always between MIN_REPLICAS
\* and MAX_REPLICAS inclusive, whatever operations have run
C1_ReplicaCountInBounds ==
  /\ Len(replicas) >= MIN_AGENT_REPLICAS
  /\ Len(replicas) <= MAX_AGENT_REPLICAS

\* the pool is full after six spawn events, the last of them a manual one
W_C1_PoolFull ==
  /\ Len(replicas) = MAX_AGENT_REPLICAS
  /\ scale_events[Len(scale_events)].reason = "manual"

\* C2: a replica named forge-primary is present in the replica table in
\* every reachable state
C2_PrimaryPresent ==
  \E i \in 1..Len(replicas) : replicas[i].name = PRIMARY_NAME

\* a scale-down has removed a replica and the primary is still there
W_C2_KillHappened ==
  /\ \E i \in 1..Len(scale_events) : scale_events[i].event = "kill"
  /\ replicas[1].name = PRIMARY_NAME

\* C3: a tick changes the replica table only if now - last_scale_time is
\* strictly greater than SCALE_COOLDOWN_SECONDS; and unless last_scale_time
\* was zeroed, a tick that scales is more than SCALE_COOLDOWN_SECONDS after
\* every scale event of the log
C3_CooldownStrict ==
  \A res \in TickResultsOf(Coord) :
    RidSet(res.c.replicas) # RidSet(replicas) =>
      /\ now - last_scale_time > SCALE_COOLDOWN_SECONDS
      /\ last_scale_time # 0 =>
           \A i \in 1..Len(scale_events) :
             now - scale_events[i].timestamp > SCALE_COOLDOWN_SECONDS

\* exactly at the boundary, with a scale-up condition present, a tick
\* leaves the table alone
W_C3_AtBoundary ==
  /\ now - last_scale_time = SCALE_COOLDOWN_SECONDS
  /\ Len(all_services) > MAX_SERVICES_PER_AGENT * Len(replicas)
  /\ \A res \in TickResultsOf(Coord) : res.action.kind = "none"

\* C4: one mape_k_tick call, with or without the cooldown bypass, changes
\* the replica table by at most one replica and logs at most one event
C4_OneScalePerTick ==
  \A c \in {Coord, Bypassed} :
    \A res \in TickResultsOf(c) :
      /\ Cardinality((RidSet(res.c.replicas) \ RidSet(replicas))
                       \cup (RidSet(replicas) \ RidSet(res.c.replicas))) <= 1
      /\ Len(res.c.scale_events) - Len(scale_events) <= 1

\* a tick kills a replica while another non-primary replica stays
W_C4_TickKills ==
  /\ Len(replicas) >= 3
  /\ \E res \in TickResultsOf(Coord) :
       /\ res.action.kind = "killed"
       /\ Len(res.c.replicas) = Len(replicas) - 1

Range(seq) == { seq[i] : i \in 1..Len(seq) }

\* the replicas of the table that are not the primary
NonPrimary(reps) == { i \in 1..Len(reps) : reps[i].name # PRIMARY_NAME }

\* no scale-up condition holds and the scale-down condition does
ScaleDownDue ==
  /\ QueueDepth(Coord) <= QUEUE_HIGH_WATERMARK
  /\ Len(all_services) <= MAX_SERVICES_PER_AGENT * Len(replicas)
  /\ CpuOutcomes(Coord) = {FALSE}
  /\ CooldownOk(Coord, now)
  /\ QueueDepth(Coord) < QUEUE_LOW_WATERMARK
  /\ Len(replicas) > MIN_AGENT_REPLICAS

\* C5: in a tick where no scale-up condition holds, the cooldown has
\* elapsed, nothing is pending and there is more than one replica, exactly
\* one replica is killed, and it is a non-primary replica with the fewest
\* assigned services among the non-primary replicas
C5_ScaleDownRule ==
  ScaleDownDue =>
    \A res \in TickResultsOf(Coord) :
      \E v \in NonPrimary(replicas) :
        /\ RidSet(res.c.replicas) = RidSet(replicas) \ {replicas[v].replica_id}
        /\ \A j \in NonPrimary(replicas) :
             Len(replicas[v].assigned_services)
               <= Len(replicas[j].assigned_services)

\* how often the service s is assigned in the replica table
TimesAssigned(reps, s) ==
  SumSeq([i \in 1..Len(reps) |->
            Cardinality({ k \in 1..Len(reps[i].assigned_services) :
                            reps[i].assigned_services[k] = s })])

\* C6: every known service is assigned to exactly one replica, no replica
\* holds a service that is not known, and the assignment counts of any two
\* replicas differ by at most 1, for any service list, the empty one
\* included
C6_PartitionInvariant ==
  /\ \A s \in Range(all_services) : TimesAssigned(replicas, s) = 1
  /\ \A i \in 1..Len(replicas) :
       Range(replicas[i].assigned_services) \subseteq Range(all_services)
  /\ \A i, j \in 1..Len(replicas) :
       Len(replicas[i].assigned_services)
         - Len(replicas[j].assigned_services) <= 1

\* C7: complete_work(id, success) takes a processing item to completed or
\* failed, removes it from the queue and adds one to analyses_completed of
\* the replica that processed it and to no other counter; for an id that
\* is pending or not in the queue nothing changes
C7_CompleteWorkOnce ==
  \A work_id \in 1..MaxWid, success \in BOOLEAN :
    LET c2 == CompleteWorkFn(Coord, work_id, success)
        Hits == { n \in 1..Len(work_queue) : work_queue[n].id = work_id }
    IN IF \E n \in Hits : work_queue[n].status = "processing"
       THEN LET n == FirstOf(Hits)
                done == c2.completed_work[Len(c2.completed_work)]
            IN /\ \A m \in 1..Len(c2.work_queue) : c2.work_queue[m].id # work_id
               /\ done.id = work_id
               /\ done.status = IF success THEN "completed" ELSE "failed"
               /\ Len(c2.replicas) = Len(replicas)
               /\ \A i \in 1..Len(replicas) :
                    c2.replicas[i].analyses_completed =
                      replicas[i].analyses_completed
                        + (IF replicas[i].replica_id = work_queue[n].assigned_to
                           THEN 1 ELSE 0)
       ELSE c2 = Coord

\* C8: once no validation is pending or running, every spawn (but the
\* initial one) and every kill of the scale-event log has a result in the
\* validation ring whose trigger_replica is the event's replica id
C8_EveryScaleEventValidated ==
  (pending_validation = NoValidation /\ inflight = EmptyBag) =>
    \A i \in 1..Len(scale_events) :
      scale_events[i].reason # "initial" =>
        \E k \in 1..Len(validation_results) :
          validation_results[k].trigger_replica = scale_events[i].replica_id

\* no item of the queue q is assigned to a replica missing from reps
NoOrphanWork(q, reps) ==
  \A n \in 1..Len(q) :
    /\ q[n].assigned_to # NoRid => HasReplica(reps, q[n].assigned_to)
    /\ q[n].status = "pending" => q[n].assigned_to = NoRid

Dispatched(q, q2) ==
  { n \in 1..Len(q) : q[n].status = "pending" /\ q2[n].status = "processing" }

\* the tick hands items out in queue order to the replicas it names
DispatchInOrder(c, c2) ==
  /\ \A n \in Dispatched(c.work_queue, c2.work_queue) :
       /\ \A m \in 1..(n - 1) : c2.work_queue[m].status # "pending"
       /\ \E i \in 1..Len(c2.replicas) :
            /\ c2.replicas[i].replica_id = c2.work_queue[n].assigned_to
            /\ c2.replicas[i].current_task =
                 [task_type |-> c2.work_queue[n].task_type,
                  service |-> c2.work_queue[n].service_name]

\* at the end of the tick no running replica is idle while work is pending
NoIdleWhilePending(c2) ==
  \A i \in 1..Len(c2.replicas) :
    (c2.replicas[i].status = "running" /\ c2.replicas[i].current_task = NoTask)
      => PendingIdx(c2.work_queue) = {}

\* C10: in each tick every running replica with no current_task receives
\* the earliest item still pending, whatever its priority; the item
\* becomes processing, assigned to the replica, whose current_task becomes
\* <task_type>:<service>; no earlier item stays pending behind a later one
C10_FifoDispatch ==
  \A res \in TickResultsOf(Coord) :
    /\ DispatchInOrder(Coord, res.c)
    /\ NoIdleWhilePending(res.c)

\* C11: with the cooldown elapsed and fewer than MAX_AGENT_REPLICAS
\* replicas, a tick spawns a replica if and only if queue_depth > 3 or
\* services_per_agent > 5 or avg_cpu > 80; the queue comparison is strict
C11_ScaleUpRule ==
  (CooldownOk(Coord, now) /\ Len(Running(replicas)) < MAX_AGENT_REPLICAS) =>
    \A cpuHigh \in CpuOutcomes(Coord) :
      LET res == MapeKTick(Coord, next_rid, cpuHigh, now)
      IN (/\ Len(res.c.replicas) = Len(replicas) + 1
          /\ HasReplica(res.c.replicas, next_rid)
          /\ res.action.kind = "spawned")
         <=> \/ QueueDepth(Coord) > QUEUE_HIGH_WATERMARK
             \/ Len(all_services)
                  > MAX_SERVICES_PER_AGENT * Len(Running(replicas))
             \/ cpuHigh

\* exactly QUEUE_HIGH_WATERMARK items are pending, the other two
\* conditions are false, the cooldown has elapsed and the tick does not
\* spawn
W_C11_AtWatermark ==
  /\ QueueDepth(Coord) = QUEUE_HIGH_WATERMARK
  /\ CooldownOk(Coord, now)
  /\ Len(all_services) <= MAX_SERVICES_PER_AGENT * Len(Running(replicas))
  /\ CpuOutcomes(Coord) = {FALSE}
  /\ \A res \in TickResultsOf(Coord) : Len(res.c.replicas) = Len(replicas)

\* the runs of simulate-load with count 5 (scenario E1) from this state
E1Runs == SimTicks(SimEnqueue(Coord, next_wid, 5), next_rid, 5, now)

\* of the reason strings of the model, "queue_depth" stands for
\* f"queue_depth={queue_depth} > high_watermark=..." and is the only one
\* that contains the text queue_depth
ContainsQueueDepth(reason) == reason = "queue_depth"

\* the replica count grows to 2 and then to 3 along the new scale events
GrowsTo3(c2) ==
  /\ Len(c2.replicas) >= 3
  /\ \E i, j \in (Len(scale_events) + 1)..Len(c2.scale_events) :
       /\ i < j
       /\ c2.scale_events[i].event = "spawn"
       /\ c2.scale_events[i].total_replicas = 2
       /\ c2.scale_events[j].event = "spawn"
       /\ c2.scale_events[j].total_replicas = 3

\* the validation ring is non-empty once the pending validation has run
RingFilled(c2) ==
  /\ StartValidation(c2).started # NoValidation
  /\ PushValidation(c2.validation_results, StartValidation(c2).started) # <<>>

\* C12: scenario E1: from 1 replica, 0 known services and an empty queue,
\* enqueueing 5 analyze items and running up to 4 ticks with the cooldown
\* bypassed makes the replica count grow to 2 and then 3, each growth is
\* logged as a spawn event whose reason contains "queue_depth", and the
\* validation ring is non-empty after the pending validation has run
C12_ScenarioE1 ==
  (Len(replicas) = 1 /\ all_services = <<>> /\ work_queue = <<>>) =>
    \A res \in E1Runs :
      /\ GrowsTo3(res.c)
      /\ \A i \in (Len(scale_events) + 1)..Len(res.c.scale_events) :
           /\ res.c.scale_events[i].event = "spawn"
           /\ ContainsQueueDepth(res.c.scale_events[i].reason)
      /\ RingFilled(res.c)

\* the runs of simulate-load with count 0 from this state
ZeroRuns == SimTicks(SimEnqueue(Coord, next_wid, 0), next_rid, 0, now)

\* C13: a simulate-load request with count 0 leaves the replica table,
\* the work queue, the completed-work list, the scale-event log,
\* last_scale_time, the pending-validation slot and the validation ring
\* unchanged, and starts no validation
C13_SimulateLoadZero ==
  \A res \in ZeroRuns :
    /\ StartValidation(res.c).c = Coord
    /\ StartValidation(res.c).started = NoValidation
    /\ res.rid = next_rid

\* a state in which one tick with the cooldown bypassed would spawn a
\* replica and hand out work, and simulate-load with count 0 does neither
W_C13_TickWouldAct ==
  /\ \A res \in TickResultsOf(Bypassed) :
       /\ res.action.kind = "spawned"
       /\ res.c.work_queue # work_queue
  /\ \A res \in ZeroRuns : res.c = Coord

\* what run_pending_validation does up to its await on the coordinator c2
ConsumesSlot(c2) ==
  LET val == StartValidation(c2)
  IN /\ val.c.pending_validation = NoValidation
     /\ val.started = c2.pending_validation
     /\ val.c = [c2 EXCEPT !.pending_validation = NoValidation]
     /\ IF c2.pending_validation = NoValidation
        THEN val.c = c2 /\ InflightAfter(val.started) = inflight
        ELSE BagCardinality(InflightAfter(val.started))
               = BagCardinality(inflight) + 1

\* the ring after the result of v has been pushed: v last, the oldest
\* result dropped if the ring was full
PushedOnce(v) ==
  LET r == [trigger_event |-> v.trigger_event,
            trigger_replica |-> v.trigger_replica]
  IN PushValidation(validation_results, v) =
       IF Len(validation_results) >= VALIDATION_RING
       THEN Append(Tail(validation_results), r)
       ELSE Append(validation_results, r)

\* C14: run_pending_validation clears a set slot before the validation
\* runs and appends exactly one result carrying the slot's trigger and
\* replica; the ring never holds more than VALIDATION_RING results, the
\* oldest dropped first; with an empty slot nothing changes
C14_PendingSlotConsumed ==
  /\ Len(validation_results) <= VALIDATION_RING
  /\ ConsumesSlot(Coord)
  /\ \A res \in TickResultsOf(Coord) : ConsumesSlot(res.c)
  /\ \A v \in BagToSet(inflight) : PushedOnce(v)

\* the ring is full and the validation of a scale event is about to be
\* pushed
W_C14_RingFull ==
  /\ Len(validation_results) = VALIDATION_RING
  /\ \E v \in BagToSet(inflight) : v.trigger_event = "scale_up"

\* C15: from the start of a tick to its return no other operation
\* changes or sees a half-done coordinator: after MONITOR the coordinator
\* is the one the tick started on, after EXECUTE it is that one with the
\* tick's scale action applied, the tick ends as the uninterrupted
\* mape_k_tick would, and the tick itself starts or finishes no validation
C15_TickAtomic ==
  /\ tick.pc = "monitored" => Coord = tick.c0
  /\ tick.pc = "executed" =>
       /\ Coord = Execute(tick.c0, tick.rid, tick.cpuHigh, now).c
       /\ Dispatch(Coord, tick.running)
            = MapeKTick(tick.c0, tick.rid, tick.cpuHigh, now).c

\* a tick has killed a replica and not yet dispatched, while the
\* validation of an earlier request is suspended and an item is pending
W_C15_MidTick ==
  /\ tick.pc = "executed"
  /\ Len(replicas) < Len(tick.c0.replicas)
  /\ inflight # EmptyBag
  /\ PendingIdx(work_queue) # {}
\* a document without its last_updated stamp
Unstamped(data) == [data EXCEPT !.last_updated = 0]

\* the file after the operations of the callers a and then b have run one
\* after the other on the document both started from
RunInOrder(a, b) ==
  Persisted(Persisted(threads[a].base, threads[a].op, threads[a].uid,
                      threads[a].ts),
            threads[b].op, threads[b].uid, threads[b].ts)

\* C16: when two store operations have run concurrently, the persisted
\* document is the one that running them one after the other, in one of
\* the two orders, leaves
C16_NoLostUpdate ==
  (\A t \in Threads : threads[t].pc = "done") =>
    \E a, b \in Threads :
      /\ a # b
      /\ Unstamped(mem) = Unstamped(RunInOrder(a, b))

\* C17: after add_insight(s, i), also for an i that already has an id or
\* a status, get_all_insights() has exactly one entry with the returned
\* id, and that entry has service s and status open
C17_InsightListedOnce ==
  \A s \in Services, i \in InsightInputs :
    LET r == AddInsightFn(mem, s, i, next_uid, mclock)
        all == GetAllInsights(r.data)
        Found == { k \in 1..Len(all) : all[k].id = r.ret }
    IN /\ Cardinality(Found) = 1
       /\ \A k \in Found : all[k].service = s /\ all[k].status = "open"

\* the patterns stored for the service, none if the service is unknown
PatternsOf(data, service) ==
  IF HasService(data, service)
  THEN data.services[SvcIndex(data, service)].patterns
  ELSE <<>>

\* C18: add_pattern with the type and description of a stored pattern of
\* the service adds no entry, returns the stored pattern's id, adds
\* exactly 1 to its occurrences, sets last_confirmed to now and leaves
\* first_detected and every other pattern as they were
C18_PatternMerge ==
  \A s \in Services :
    LET stored == PatternsOf(mem, s)
    IN \A k \in 1..Len(stored), conf \in {NoConf, 100}, rec \in {"", "r2"} :
         LET p == Pattern(stored[k].type, stored[k].description, conf, rec)
             r == AddPatternFn(mem, s, p, next_uid, mclock)
             after == PatternsOf(r.data, s)
         IN /\ Len(after) = Len(stored)
            /\ r.ret = stored[k].id
            /\ after[k].occurrences = stored[k].occurrences + 1
            /\ after[k].last_confirmed = mclock
            /\ after[k].first_detected = stored[k].first_detected
            /\ \A j \in 1..Len(stored) : j # k => after[j] = stored[j]

\* two patterns are stored for a service, and the second of them has been
\* merged into: it was first detected before it was last confirmed
W_C18_MergedSecond ==
  \E s \in Services :
    /\ Len(PatternsOf(mem, s)) >= 2
    /\ PatternsOf(mem, s)[2].occurrences = 2
    /\ PatternsOf(mem, s)[2].first_detected < PatternsOf(mem, s)[2].last_confirmed

\* the confidence a stored pattern counts with
ConfidenceOf(pat) == IF pat.confidence = NoConf THEN CONF_DEFAULT ELSE pat.confidence

\* C19: for patterns first stored with a confidence anywhere in [0, 1],
\* a stored confidence never exceeds 0.99, and a merge leaves
\* min(0.99, previous + 0.02), which is never less than the previous one
C19_ConfidenceMonotone ==
  \A s \in Services :
    LET stored == PatternsOf(mem, s)
    IN \A k \in 1..Len(stored) :
         LET p == Pattern(stored[k].type, stored[k].description, NoConf, "")
             after == PatternsOf(AddPatternFn(mem, s, p, next_uid, mclock).data, s)
         IN /\ ConfidenceOf(stored[k]) <= CONF_CAP
            /\ after[k].confidence
                 = Min2(CONF_CAP, ConfidenceOf(stored[k]) + CONF_STEP)
            /\ after[k].confidence >= ConfidenceOf(stored[k])

\* the first 40 characters of the two descriptions are equal ignoring case
SamePrefix(a, b) ==
  LowerStr(Take(a, SIMILAR_PREFIX)) = LowerStr(Take(b, SIMILAR_PREFIX))

\* |A n B| / |A u B| > 0.6 for the word sets of the two descriptions
JaccardOver60(a, b) ==
  LET A == WordSet(LowerStr(a))
      B == WordSet(LowerStr(b))
  IN /\ A \cup B # {}
     /\ 10 * Cardinality(A \cap B) > 6 * Cardinality(A \cup B)

\* |A n B| / max(|A|, |B|) > 0.6 for two non-empty word sets
SharedOver60(a, b) ==
  LET A == WordSet(LowerStr(a))
      B == WordSet(LowerStr(b))
  IN /\ A # {} /\ B # {}
     /\ \A n \in {Cardinality(A), Cardinality(B)} :
          10 * Cardinality(A \cap B) > 6 * n

\* add_pattern(s, p) merges (adds no entry) exactly if some stored pattern
\* of s has p's type and a description that Alike relates to p's
MergesExactlyIf(Alike(_, _)) ==
  \A s \in Services, p \in PatternProbes :
    LET stored == PatternsOf(mem, s)
        after == PatternsOf(AddPatternFn(mem, s, p, next_uid, mclock).data, s)
    IN (Len(after) = Len(stored))
         <=> \E k \in 1..Len(stored) :
               /\ stored[k].type = p.type
               /\ Alike(stored[k].description, p.description)

C21_AtomicPersistence ==
  /\ LoadMemory(disk) # ParseError
  /\ saver.pc # "idle" => LoadMemory(disk) \in {saver.before, saver.data}

\* a crash between two writes of a save that changes the document: the
\* .tmp file holds the beginning of the document
W_C21_CrashedMidWrite ==
  /\ saver.pc = "crashed"
  /\ saver.before # saver.data
  /\ disk.files[TmpOf(MEMORY_FILE)] # Absent
  /\ Len(disk.files[TmpOf(MEMORY_FILE)]) \in 1..5
  /\ Len(saver.before.services) > 0

\* C22: a save on an unwritable path gets no further than the open, which
\* fails, and the file reads as it did before the operation
C22_UnwritableUnchanged ==
  (~disk.writable /\ saver.pc \notin {"idle", "crashed", "opening"}) =>
    /\ saver.pc = "failed"
    /\ LoadMemory(disk) = saver.before
    /\ disk.files[MEMORY_FILE] = Serialize(saver.before)

\* an operation that changes a document holding two services has failed
\* on the unwritable path
W_C22_FailedSave ==
  /\ ~disk.writable
  /\ saver.pc = "failed"
  /\ saver.data # saver.before
  /\ Len(saver.before.services) = 2

\* the session ids of the history, oldest first
HistoryIds(data) ==
  [k \in 1..Len(data.analysis_history) |-> data.analysis_history[k].session_id]

\* C23: after any sequence of record_analysis calls the history holds at
\* most 100 sessions, which are the last min(n, 100) sessions recorded in
\* the order they were recorded, every call having returned the id of the
\* session it stored
C23_HistoryRing ==
  /\ Len(mem.analysis_history) <= HISTORY_RING
  /\ Len(mem.analysis_history) = Min2(Len(recorded), HISTORY_RING)
  /\ HistoryIds(mem) = LastN(recorded, HISTORY_RING)

\* more than 100 sessions have been recorded, one of them with an id of
\* its own that has since left the history
W_C23_RingTurned ==
  /\ Len(recorded) > HISTORY_RING
  /\ recorded[1] = GIVEN_SESSION
  /\ \A k \in 1..Len(mem.analysis_history) :
       mem.analysis_history[k].session_id # GIVEN_SESSION

\* the ids of the stored insights
InsightIds(data) ==
  { InsightEntries(data)[k].id : k \in 1..Len(InsightEntries(data)) }

\* C24: a second update_insight_status(id, status) with the arguments of
\* the first leaves the persisted document as the first left it
C24_PatchIdempotent ==
  \A id \in InsightIds(mem), status \in {"open", "acknowledged", "resolved"} :
    LET first == PatchInsightFn(mem, id, status, mclock)
        second == PatchInsightFn(first.data, id, status, mclock + 1)
    IN second.data = first.data

\* the ids get_recommendations() lists
RecommendedIds(data) ==
  { GetRecommendations(data)[k].id : k \in 1..Len(GetRecommendations(data)) }

\* C25: get_recommendations() lists exactly the open insights of severity
\* high or critical that have a recommendation; a new insight of that
\* kind is listed; an insight patched to acknowledged or resolved is not,
\* and every other insight is listed after the patch iff it was before
C25_RecommendationLifecycle ==
  /\ GetRecommendations(mem)
       = SelectSeq(GetAllInsights(mem),
                   LAMBDA e : /\ e.status = "open"
                              /\ e.severity \in {"high", "critical"}
                              /\ e.recommendation # "")
  /\ \A s \in Services, i \in NewInsights :
       LET r == AddInsightFn(mem, s, i, next_uid, mclock)
       IN (i.severity \in {"high", "critical"} /\ i.recommendation # "")
            => r.ret \in RecommendedIds(r.data)
  /\ \A id \in InsightIds(mem), status \in {"acknowledged", "resolved"} :
       LET after == PatchInsightFn(mem, id, status, mclock).data
       IN /\ id \notin RecommendedIds(after)
          /\ \A other \in InsightIds(mem) \ {id} :
               other \in RecommendedIds(after) <=> other \in RecommendedIds(mem)

\* of two insights that were listed, one has been acknowledged by a PATCH
\* and is no longer listed; the other still is
W_C25_Acknowledged ==
  /\ resp.code = 200
  /\ resp.status = "acknowledged"
  /\ resp.changed
  /\ resp.insight_id \notin RecommendedIds(mem)
  /\ \E k \in 1..Len(InsightEntries(mem)) :
       /\ InsightEntries(mem)[k].id = resp.insight_id
       /\ InsightEntries(mem)[k].severity \in {"high", "critical"}
       /\ InsightEntries(mem)[k].recommendation # ""
  /\ RecommendedIds(mem) # {}

\* C26: a PATCH with a status other than open, acknowledged or resolved
\* is answered with 400 and changes neither an insight nor the file
C26_InvalidStatusRejected ==
  /\ resp.status \notin {"open", "acknowledged", "resolved"} /\ resp.code # 0
       => resp.code = 400 /\ ~resp.changed
  /\ \A id \in PatchIds, status \in PatchStatuses :
       status \notin {"open", "acknowledged", "resolved"} =>
         PatchInsightFn(mem, id, status, mclock) = [code |-> 400, data |-> mem]

\* a PATCH with the status "closed" for a stored open insight has been
\* answered
W_C26_RejectedPatch ==
  /\ resp.status = "closed"
  /\ resp.code # 0
  /\ \E k \in 1..Len(InsightEntries(mem)) :
       /\ InsightEntries(mem)[k].id = resp.insight_id
       /\ InsightEntries(mem)[k].status = "open"

\* C27: the ids log_activity returns, in the order of the returns, are
\* 1, 2, 3, ...: each is one greater than the one before, none occurs
\* twice, also once its entry has left the ring of 200; the ring holds
\* the entries of the latest ids, oldest first
C27_ActivityIds ==
  /\ \A k \in 1..Len(issued) : issued[k] = k
  /\ Len(act_log) <= MAX_ENTRIES
  /\ \A k \in 1..(Len(act_log) - 1) : act_log[k + 1].id = act_log[k].id + 1
  /\ \A k \in 1..Len(act_log) : act_log[k].id \in 1..act_counter
  /\ \A t \in Loggers :
       loggers[t].pc = "appended" => act_log[Len(act_log)].id = Len(issued) + 1

\* the ring is full and has lost its first entry, and a thread is inside
\* log_activity, about to return
W_C27_EvictedAndContended ==
  /\ Len(issued) > MAX_ENTRIES
  /\ Len(act_log) = MAX_ENTRIES
  /\ act_log[1].id > 1
  /\ \E t \in Loggers : loggers[t].pc = "appended"

\* the call has returned the report of the fallback
FellBack(c) == calls[c].pc = "returned" /\ calls[c].fallback

\* the wall-clock hour a reading of the clock lies in
WallHour(t) == t \div TicksPerHour

\* both calls lie, from start to return, in one wall-clock hour
SameHour(c1, c2) ==
  /\ WallHour(calls[c1].start) = WallHour(calls[c1].finish)
  /\ WallHour(calls[c2].start) = WallHour(calls[c2].finish)
  /\ WallHour(calls[c1].start) = WallHour(calls[c2].start)

\* C28: with the LLM failing, two analyze_service calls for the same
\* service name that lie in the same wall-clock hour return reports with
\* the same health_score, status and root_cause, whatever was analysed or
\* stored in between; the health_score of a fallback report is one of
\* 95, 88, 72, 65, 42, 38, 25 and its status is healthy from 80 on,
\* degraded from 50 to 79, critical below
C28_DeterministicFallback ==
  /\ \A c \in Calls :
       FellBack(c) =>
         LET report == calls[c].report
         IN /\ report.health_score \in {95, 88, 72, 65, 42, 38, 25}
            /\ report.status = "healthy" <=> report.health_score >= 80
            /\ report.status = "degraded" <=>
                 (50 <= report.health_score /\ report.health_score < 80)
            /\ report.status = "critical" <=> report.health_score < 50
  /\ \A c1, c2 \in Calls :
       (/\ FellBack(c1) /\ FellBack(c2)
        /\ calls[c1].service = calls[c2].service
        /\ SameHour(c1, c2)) =>
         /\ calls[c1].report.health_score = calls[c2].report.health_score
         /\ calls[c1].report.status = calls[c2].report.status
         /\ calls[c1].report.root_cause = calls[c2].report.root_cause

\* two calls for one service fell back at different readings of the clock
\* in one hour, after the first of them had stored its session, baseline
\* and insights
W_C28_TwiceInOneHour ==
  \E c1, c2 \in Calls :
    /\ c1 # c2
    /\ FellBack(c1) /\ FellBack(c2)
    /\ calls[c1].service = calls[c2].service
    /\ SameHour(c1, c2)
    /\ calls[c1].finish < calls[c2].finish
    /\ calls[c1].report.status = "critical"

\* the service has a baseline in the document
BaselineStored(data, service) ==
  \E i \in 1..Len(data.services) :
    /\ data.services[i].name = service
    /\ data.services[i].baseline_metrics # NoBaseline

\* analyze_service run on the store as it is, for every service and
\* every failure of the LLM
FallbackRuns ==
  { AnalyzeFn(StoreNow, service_name, 1, result, wall, rng, n) :
      service_name \in Services,
      result \in { x \in LlmResults : LlmFailed(x) },
      n \in DemoInsightCounts }

\* C29: whenever the LLM call raises, times out or returns text without
\* an enclosing {...} that parses, analyze_service raises nothing and
\* returns a report with every key of the report shape, the history has
\* gained exactly one session, and a baseline is stored for the service
C29_FailureNeverSurfaces ==
  /\ \A c \in Calls :
       FellBack(c) =>
         /\ calls[c].raised = "none"
         /\ DOMAIN calls[c].report = ReportShape
         /\ BaselineStored(mem, calls[c].service)
  /\ Len(mem.analysis_history) =
       Cardinality({ c \in Calls : calls[c].pc = "returned" })
  /\ \A r \in FallbackRuns :
       /\ r.raised = "none"
       /\ DOMAIN r.report = ReportShape
       /\ Len(r.st.data.analysis_history) = Len(mem.analysis_history) + 1
       /\ BaselineStored(r.st.data, r.report.service)

\* a call whose LLM failed has returned the report of the fallback, its
\* one session is the whole history, and its background task has ended
W_C29_FellBackAndReturned ==
  \E c \in Calls :
    /\ FellBack(c)
    /\ calls[c].report.service = calls[c].service
    /\ Len(mem.analysis_history) = 1
    /\ bg[c].pc = "finished"

\* C30: analyze_service returns its report before its background task
\* runs, and a task that has timed out, raised, or got unparseable or
\* wrongly shaped JSON leaves the returned report and the success of the
\* call as they were
C30_BackgroundApart ==
  \A c \in Calls :
    /\ bg[c].pc # "none" => calls[c].pc = "returned"
    /\ bg[c].pc \in {"finished", "crashed"} =>
         /\ calls[c].raised = "none"
         /\ calls[c].report = delivered[c]

\* one call has returned while its task is still to run, and the task of
\* another has ended with an exception of its own
W_C30_PendingAndCrashed ==
  \E c1, c2 \in Calls :
    /\ calls[c1].pc = "returned" /\ bg[c1].pc = "pending"
    /\ bg[c2].pc = "crashed" /\ bg[c2].outcome = "wrong_shape"

\* the strategies generate_strategies derives from the store as it is
StrategiesNow ==
  GenerateStrategies(known.insights, known.patterns, next_sid).strategies

\* the strategies of a type that target a service
OfTypeFor(type, target) ==
  { i \in 1..Len(StrategiesNow) :
      StrategiesNow[i].type = type /\ StrategiesNow[i].target = target }

\* the services the insights and patterns of the store name
KnownServices ==
  { known.insights[i].service : i \in 1..Len(known.insights) }
  \cup { PatternService(known.patterns[i]) : i \in 1..Len(known.patterns) }

\* one health sweep, and per service at most one latency probe, one load
\* burst and one cascade simulation
NoDuplicates ==
  /\ Cardinality(OfTypeFor("health_sweep", "all")) = 1
  /\ \A svc \in KnownServices :
       \A type \in {"latency_probe", "load_burst", "cascade_sim"} :
         Cardinality(OfTypeFor(type, svc)) <= 1

\* the store holds one insight with the word "latency" and no load
\* keyword, and one pattern of type cascade_risk
ScenarioE4 ==
  /\ Len(known.insights) = 1
  /\ Len(known.patterns) = 1
  /\ Contains(LowerText(known.insights[1].insight \o known.insights[1].title),
              <<"latency">>)
  /\ ~ContainsAny(LowerText(known.insights[1].insight \o known.insights[1].title),
                  LOAD_KEYWORDS)
  /\ known.patterns[1].type = "cascade_risk"

\* C31: generate_strategies returns exactly one health_sweep and per
\* service at most one latency_probe, one load_burst and one cascade_sim;
\* for one insight containing "latency" on service X and one cascade_risk
\* pattern on service Y it returns exactly one health_sweep, one
\* latency_probe targeting X and one cascade_sim targeting Y
C31_StrategiesWithoutDuplicates ==
  /\ NoDuplicates
  /\ ScenarioE4 =>
       /\ Len(StrategiesNow) = 3
       /\ Cardinality(OfTypeFor("health_sweep", "all")) = 1
       /\ Cardinality(OfTypeFor("latency_probe", known.insights[1].service)) = 1
       /\ Cardinality(OfTypeFor("cascade_sim", PatternService(known.patterns[1]))) = 1

\* the service has an insight whose text contains one of the keywords
HasInsightWith(svc, keywords) ==
  \E i \in 1..Len(known.insights) :
    /\ known.insights[i].service = svc
    /\ ContainsAny(LowerText(known.insights[i].insight \o known.insights[i].title),
                   keywords)

\* C32: every service with an insight whose text contains a latency
\* keyword gets a latency_probe targeting it, and every service with an
\* insight whose text contains a load keyword gets a load_burst targeting
\* it, whatever the other services of the insights are called
C32_StrategiesPerService ==
  \A svc \in KnownServices :
    /\ HasInsightWith(svc, LATENCY_KEYWORDS) => OfTypeFor("latency_probe", svc) # {}
    /\ HasInsightWith(svc, LOAD_KEYWORDS) => OfTypeFor("load_burst", svc) # {}

\* the results of the last report with a status
ResultsWith(status) ==
  { i \in 1..Len(last_report.statuses) : last_report.statuses[i] = status }

\* C33: the overall status of a report is pass if and only if no result
\* is failed, fail if and only if no result is passed, and partial
\* otherwise, for every multiset of results
C33_OverallStatus ==
  last_report # NoReport =>
    /\ last_report.overall_status = "passed" <=> ResultsWith("failed") = {}
    /\ last_report.overall_status = "failed" <=> ResultsWith("passed") = {}
    /\ last_report.overall_status = "partial" <=>
         (ResultsWith("failed") # {} /\ ResultsWith("passed") # {})

\* C37: a run requested with ids of the preceding listing, the store
\* unchanged in between, runs exactly the strategies with those ids; a
\* non-empty list of listed ids never runs zero strategies
C37_SelectiveRun ==
  (/\ last_report # NoReport
   /\ last_report.requested # NoIds
   /\ last_report.requested # {}
   /\ last_report.from_listing
   /\ last_report.unchanged) =>
    /\ { last_report.ran[i] : i \in 1..Len(last_report.ran) } = last_report.requested
    /\ last_report.strategies_run > 0

\* C34: for every pair of measurements validate_scale_stability reports,
\* network_stable is true if and only if the pass rate after the scale is
\* at least 95% of the one before and the p99 after is at most 120% of
\* the one before, in demo mode and in production
C34_StabilityVerdict ==
  stability.called =>
    LET pre == stability.result.phase_1_pre_scale
        post == stability.result.phase_2_post_scale
    IN stability.result.network_stable <=>
         (/\ post.pass_rate * 100 >= pre.pass_rate * 95
          /\ post.p99_latency_ms * 100 <= pre.p99_latency_ms * 120)

\* production has reported a pass rate of exactly 95% of the one before
\* with a p99 of exactly 120% of the one before as stable
W_C34_OnBothThresholds ==
  /\ stability.called /\ ~stability.demo
  /\ stability.result.phase_1_pre_scale = Phase(1000, 1000)
  /\ stability.result.phase_2_post_scale = Phase(950, 1200)
  /\ stability.result.network_stable

\* C35: every remediation call appends exactly one entry to the action
\* log, also when the provider rejects the action, and then the entry
\* has status failed
C35_RemediationJournalled ==
  last_remedy # NoRemedy =>
    /\ Len(action_log) = Len(last_remedy.before) + 1
    /\ SubSeq(action_log, 1, Len(last_remedy.before)) = last_remedy.before
    /\ action_log[Len(action_log)].action_type = last_remedy.action_type
    /\ last_remedy.rejected => action_log[Len(action_log)].status = "failed"

\* POST /api/cluster/complete/{work_id}: the coordinator afterwards and
\* what the caller is answered
CompleteWorkRoute(c, work_id) ==
  [c |-> CompleteWorkFn(c, work_id, TRUE),
   code |-> 200,
   body |-> [status |-> "completed", work_id |-> work_id]]

\* the ids of the items in the queue
QueuedIds(c) == { c.work_queue[n].id : n \in 1..Len(c.work_queue) }

\* C36: completing a work id that is not in the queue (never enqueued or
\* already completed) is answered with a 404 and not with success, and
\* leaves the queue, the completed work and every replica as they were
C36_UnknownWorkNotFound ==
  \A work_id \in 1..MaxWid :
    work_id \notin QueuedIds(Coord) =>
      /\ CompleteWorkRoute(Coord, work_id).code = 404
      /\ CompleteWorkRoute(Coord, work_id).c = Coord

\* POST /api/cluster/scale on the coordinator c with the fresh replica
\* id rid at time t: the coordinator afterwards and the HTTP status
ManualScaleFn(c, direction, rid, t) ==
  IF ManualScaleCode(c.replicas, direction) # 200
  THEN [c |-> c, code |-> ManualScaleCode(c.replicas, direction)]
  ELSE IF direction = "up"
  THEN
    LET c0 == [c EXCEPT !.last_scale_time = 0]
        c1 == SpawnReplica(c0, rid, rid, t)
        ev == [event |-> "spawn", replica_id |-> NoRid, name |-> rid,
               timestamp |-> t, reason |-> "manual",
               total_replicas |-> Len(c1.replicas)]
        c2 == RebalancePartitions([c1 EXCEPT !.scale_events = Append(@, ev)])
    IN [c |-> StartValidation(c2).c, code |-> 200]
  ELSE
    LET victim == c.replicas[IndexOfReplica(c.replicas, MANUAL_VICTIM_KEY)]
        c1 == KillReplica(c, victim.replica_id, t)
        ev == [event |-> "kill", replica_id |-> NoRid, name |-> victim.name,
               timestamp |-> t, reason |-> "manual",
               total_replicas |-> Len(c1.replicas)]
    IN [c |-> RebalancePartitions([c1 EXCEPT !.scale_events = Append(@, ev)]),
        code |-> 200]

\* the scale events a handler added to those of c
EventsAdded(c, after) ==
  SubSeq(after.scale_events, Len(c.scale_events) + 1, Len(after.scale_events))

Names(reps) == { reps[i].name : i \in 1..Len(reps) }

\* C38: manual scale up below 6 replicas adds exactly one replica and
\* records exactly one spawn event for it; manual scale down above 1
\* replica removes exactly one non-primary replica, records exactly one
\* kill event and answers success; at the limits the answer is 400 and
\* nothing changes
C38_ManualScaleByOne ==
  LET up == ManualScaleFn(Coord, "up", next_rid, now)
      down == ManualScaleFn(Coord, "down", next_rid, now)
  IN /\ Len(replicas) < MANUAL_MAX_REPLICAS =>
          /\ up.code = 200
          /\ Len(up.c.replicas) = Len(replicas) + 1
          /\ Len(EventsAdded(Coord, up.c)) = 1
          /\ EventsAdded(Coord, up.c)[1].event = "spawn"
     /\ Len(replicas) >= MANUAL_MAX_REPLICAS =>
          up.code = 400 /\ up.c = Coord
     /\ Len(replicas) > MANUAL_MIN_REPLICAS =>
          /\ down.code = 200
          /\ Len(down.c.replicas) = Len(replicas) - 1
          /\ Names(replicas) \ Names(down.c.replicas) # {PRIMARY_NAME}
          /\ Len(EventsAdded(Coord, down.c)) = 1
          /\ EventsAdded(Coord, down.c)[1].event = "kill"
     /\ Len(replicas) <= MANUAL_MIN_REPLICAS =>
          down.code = 400 /\ down.c = Coord

\* the items of the queue a replica is processing
ProcessingFor(rid) ==
  { n \in 1..Len(work_queue) :
      work_queue[n].status = "processing" /\ work_queue[n].assigned_to = rid }

\* C39: between any two handlers every replica is processing at most one
\* item, a replica has a current task exactly when one item of the queue
\* is processing and assigned to it, and no pending item is assigned
C39_ReplicaWorkConsistent ==
  LoopFree =>
    /\ \A i \in 1..Len(replicas) :
         /\ Cardinality(ProcessingFor(replicas[i].replica_id)) <= 1
         /\ replicas[i].current_task # NoTask
              <=> Cardinality(ProcessingFor(replicas[i].replica_id)) = 1
    /\ \A n \in 1..Len(work_queue) :
         work_queue[n].status = "pending" => work_queue[n].assigned_to = NoRid

\* a replica was killed by a tick, and now one replica is processing an
\* item while another item is pending
W_C39_BusyAfterKill ==
  /\ LoopFree
  /\ \E k \in 1..Len(scale_events) : scale_events[k].event = "kill"
  /\ \E i \in 1..Len(replicas) :
       /\ replicas[i].current_task # NoTask
       /\ Cardinality(ProcessingFor(replicas[i].replica_id)) = 1
  /\ PendingIdx(work_queue) # {}

\* ------------------------------------------------------------------
\* The control loop left to itself: POST /api/cluster/tick again and
\* again, each more than the cooldown after the one before, on a fixed
\* service list and an empty queue.
\*
\*  - nothing compares times but the cooldown test, so the clock is set
\*    back by the gap after every tick, which keeps the times bounded;
\*  - the tick only appends to scale_events, so the loop keeps the events
\*    of the last tick only;
\*  - a replica id is a fresh uuid4: the loop takes the first id no
\*    replica of the table has;
\*  - the route awaits run_pending_validation, so the validation has
\*    joined the ring when the next tick of the loop is requested.
\* ------------------------------------------------------------------
MaxSettleServices == 7     \* longest service list the loop is started with
MaxSettlePool == 2         \* manual scale-ups before the loop starts

SettleGap == SCALE_COOLDOWN_SECONDS + 1

\* an id no replica of the table has
FreshRid(reps) ==
  CHOOSE r \in 2..(Len(reps) + 2) :
    /\ ~HasReplica(reps, r)
    /\ \A q \in 2..(r - 1) : HasReplica(reps, q)

\* the coordinator after construction and k manual scale-ups
PoolOf(k) ==
  LET F[n \in 0..k] ==
        IF n = 0 THEN InitCoord
        ELSE LET prev == F[n - 1]
             IN ManualScaleFn(prev, "up", FreshRid(prev.replicas), BootTime).c
  IN F[k]

\* the coordinator c reached from `before`, seen from a clock set back
\* by the gap
Rebased(before, c) ==
  [c EXCEPT !.last_scale_time = Max2(0, @ - SettleGap),
            !.scale_events = EventsAdded(before, c)]

InitOffCluster ==
  /\ InitStore
  /\ InitDisk
  /\ InitCalls
  /\ InitLog
  /\ InitTester
  /\ InitTools
  /\ InitAgent({DefaultCandidate})

\* set_services(list) on a pool of 1 to 3 replicas, nothing enqueued
InitSettle ==
  /\ \E n \in 0..MaxSettleServices, k \in 0..MaxSettlePool :
       LET c == SetServicesFn(PoolOf(k), SubSeq(ServiceNames, 1, n))
       IN /\ replicas = c.replicas
          /\ work_queue = c.work_queue
          /\ completed_work = c.completed_work
          /\ scale_events = c.scale_events
          /\ last_scale_time = c.last_scale_time
          /\ all_services = c.all_services
          /\ validation_results = c.validation_results
          /\ pending_validation = c.pending_validation
  /\ inflight = EmptyBag
  /\ next_rid = MaxRid + 1
  /\ next_wid = MaxWid + 1
  /\ now = BootTime
  /\ tick = NoTick
  /\ InitOffCluster

\* more than the cooldown passes
SettleWait ==
  /\ LoopFree
  /\ now = BootTime
  /\ now' = now + SettleGap
  /\ UNCHANGED <<offClusterVars, tick, coordVars, inflight, next_rid, next_wid>>

\* POST /api/cluster/tick: the tick and the validation it awaits
SettleTick ==
  \E cpuHigh \in CpuOutcomes(Coord) :
    LET res == MapeKTick(Coord, FreshRid(replicas), cpuHigh, now)
        val == StartValidation(res.c)
        done == IF val.started = NoValidation THEN val.c
                ELSE [val.c EXCEPT !.validation_results =
                                      PushValidation(@, val.started)]
    IN /\ LoopFree
       /\ now > BootTime
       /\ Install(Rebased(Coord, done))
       /\ now' = now - SettleGap
       /\ UNCHANGED <<offClusterVars, tick, inflight, next_rid, next_wid>>

NextSettle ==
  \/ SettleWait
  \/ SettleTick

\* SettleTick as the clock sees it: the tick is enabled whenever the gap
\* has passed, and it is the only step that sets the clock back
TickDue ==
  /\ LoopFree
  /\ now > BootTime
  /\ now' = now - SettleGap

\* the ticks keep coming: time passes, and a tick that is due is made
SpecSettle ==
  InitSettle /\ [][NextSettle]_vars /\ WF_now(SettleWait) /\ WF_now(TickDue)

\* C40: with a fixed service list, an empty queue and ticks more than
\* the cooldown apart, the loop reaches a replica count that no later
\* tick changes: from some tick on, no tick spawns or kills a replica
C40_ControlLoopSettles == <>[][Len(replicas') = Len(replicas)]_replicas

====
